---------------------------- MODULE Spec2Model ----------------------------
(***************************************************************************)
(* JSE decision-support dashboard: the retrieval / prompt-assembly core    *)
(* (pages/ai_analyst.py), document ingestion (pages/data_ingestion.py),    *)
(* the chunking routine (utils/data_utils.py) and the completion call      *)
(* (utils/cortex_utils.py).                                                *)
(*                                                                         *)
(* A Python str is a sequence of one-character strings; offsets in the     *)
(* operators below are Python's 0-based offsets.                           *)
(***************************************************************************)
EXTENDS Integers, Sequences, FiniteSets, TLC

VARIABLES
    text,       \* chunk_text: the argument
    chunk_size, \* chunk_text: the argument
    overlap,    \* chunk_text: the argument
    start,      \* chunk_text: local `start`
    chunks,     \* chunk_text: local `chunks`
    windows,    \* history of the loop: one record per appended chunk
    cpc,        \* chunk_text: "loop" while the while-loop runs, then "done"
    pb_args,    \* prompt builders: the arguments of the call
    pb_prompt,  \* prompt builders: the returned prompt, NoPrompt before the call
    companies,              \* st.session_state.companies
    watchlist,              \* st.session_state.watchlist
    sens_alerts,            \* st.session_state.sens_alerts
    uploaded_documents,     \* st.session_state.uploaded_documents
    ingested_sources,       \* st.session_state.ingested_sources
    messages,               \* st.session_state.messages
    analyst_ticker_filter,  \* st.session_state.analyst_ticker_filter
    cortex_model,           \* st.session_state.cortex_model
    portfolio,              \* st.session_state.portfolio, Absent while unset
    tracked_tickers,        \* st.session_state.tracked_tickers
    temperature,            \* st.session_state.temperature, in tenths
    max_tokens,             \* st.session_state.max_tokens
    settings_run,   \* the last run of pages/settings.py: "none", "raised"
                    \* or "rendered"
    env,        \* the deployment: "no_session", "cortex" (snowflake.cortex
                \* importable) or "sql" (ImportError, the SQL fallback runs)
    request,    \* the last chat request: what render_chat_interface computed
    analysis_mode,  \* st.session_state.analysis_mode, Absent while unset
    cortex_cache    \* st.cache_data of call_cortex_complete: the stored calls

chunkVars == <<text, chunk_size, overlap, start, chunks, windows, cpc>>
promptVars == <<pb_args, pb_prompt>>
sessionVars == <<companies, watchlist, sens_alerts, uploaded_documents,
                 ingested_sources, messages, analyst_ticker_filter, cortex_model>>
settingsVars == <<portfolio, tracked_tickers, temperature, max_tokens,
                  settings_run>>
runtimeVars == <<analysis_mode, cortex_cache>>
appVars == <<sessionVars, settingsVars, env, request, runtimeVars>>
vars == <<chunkVars, promptVars, appVars>>

\* Python None where a str may stand: a str is a sequence of one-character
\* strings, so this value equals no str
None == <<"None">>

\* a key of st.session_state that was never assigned, and one that holds v
Absent == [present |-> FALSE]
Present(v) == [present |-> TRUE, value |-> v]

\* before the AI Analyst page has run and before any completion was asked
RuntimeIdle ==
    /\ analysis_mode = Absent
    /\ cortex_cache = {}

-----------------------------------------------------------------------------
(* Python str primitives                                                   *)

Min(a, b) == IF a < b THEN a ELSE b
Max(a, b) == IF a > b THEN a ELSE b

\* str.strip() / str.split() whitespace (the characters the inputs use)
Whitespace == {" ", "\n"}

\* s[a:b] for 0 <= a, 0 <= b
Slice(s, a, b) == SubSeq(s, a + 1, Min(b, Len(s)))

\* number of leading whitespace characters of s
LeadWs(s) ==
    IF \A i \in 1..Len(s) : s[i] \in Whitespace THEN Len(s)
    ELSE (CHOOSE i \in 1..Len(s) :
            /\ s[i] \notin Whitespace
            /\ \A j \in 1..(i - 1) : s[j] \in Whitespace) - 1

\* number of trailing whitespace characters of s
TrailWs(s) ==
    IF \A i \in 1..Len(s) : s[i] \in Whitespace THEN Len(s)
    ELSE Len(s) - (CHOOSE i \in 1..Len(s) :
            /\ s[i] \notin Whitespace
            /\ \A j \in (i + 1)..Len(s) : s[j] \in Whitespace)

\* s.strip()
Strip(s) ==
    IF LeadWs(s) = Len(s) THEN <<>>
    ELSE SubSeq(s, LeadWs(s) + 1, Len(s) - TrailWs(s))

\* sub occurs in s at 0-based offset i
OccursAt(s, sub, i) ==
    /\ i >= 0
    /\ i + Len(sub) <= Len(s)
    /\ \A k \in 1..Len(sub) : s[i + k] = sub[k]

\* s.rfind(sub, lo, hi): the highest offset of sub inside s[lo:hi], or -1
RFind(s, sub, lo, hi) ==
    LET found == {i \in lo..(Min(hi, Len(s)) - Len(sub)) : OccursAt(s, sub, i)}
    IN  IF found = {} THEN -1
        ELSE CHOOSE i \in found : \A j \in found : j <= i

\* sub in s
Contains(s, sub) == \E i \in 0..(Len(s) - Len(sub)) : OccursAt(s, sub, i)

UpperCase ==
    <<"A", "B", "C", "D", "E", "F", "G", "H", "I", "J", "K", "L", "M",
      "N", "O", "P", "Q", "R", "S", "T", "U", "V", "W", "X", "Y", "Z">>
LowerCase ==
    <<"a", "b", "c", "d", "e", "f", "g", "h", "i", "j", "k", "l", "m",
      "n", "o", "p", "q", "r", "s", "t", "u", "v", "w", "x", "y", "z">>

LowerChar(c) ==
    IF \E k \in 1..Len(UpperCase) : UpperCase[k] = c
    THEN LowerCase[CHOOSE k \in 1..Len(UpperCase) : UpperCase[k] = c]
    ELSE c

\* s.lower()
Lower(s) ==
    IF s = <<>> THEN <<>> ELSE <<>> \o [i \in 1..Len(s) |-> LowerChar(s[i])]

UpperChar(c) ==
    IF \E k \in 1..Len(LowerCase) : LowerCase[k] = c
    THEN UpperCase[CHOOSE k \in 1..Len(LowerCase) : LowerCase[k] = c]
    ELSE c

\* s.upper()
Upper(s) ==
    IF s = <<>> THEN <<>> ELSE <<>> \o [i \in 1..Len(s) |-> UpperChar(s[i])]

LStrip(s) == SubSeq(s, LeadWs(s) + 1, Len(s))

RECURSIVE Split(_)
\* s.split(): the maximal runs of non-whitespace characters
Split(s) ==
    LET t == LStrip(s)
    IN  IF t = <<>> THEN <<>>
        ELSE LET ws == {i \in 1..Len(t) : t[i] \in Whitespace}
                 n  == IF ws = {} THEN Len(t) + 1
                       ELSE CHOOSE i \in ws : \A j \in ws : i <= j
             IN  <<SubSeq(t, 1, n - 1)>> \o Split(SubSeq(t, n, Len(t)))

RECURSIVE Join(_, _)
\* sep.join(parts)
Join(parts, sep) ==
    IF parts = <<>> THEN <<>>
    ELSE IF Len(parts) = 1 THEN parts[1]
    ELSE parts[1] \o sep \o Join(Tail(parts), sep)

\* name.split(".")[-1]
LastDotPart(name) ==
    LET dots == {i \in 1..Len(name) : name[i] = "."}
    IN  IF dots = {} THEN name
        ELSE SubSeq(name, (CHOOSE i \in dots : \A j \in dots : j <= i) + 1, Len(name))

\* list(set(xs)) as a set
ToSet(xs) == {xs[i] : i \in 1..Len(xs)}

-----------------------------------------------------------------------------
(* utils/data_utils.py: chunk_text                                         *)

DefaultChunkSize == 1000
DefaultOverlap == 200

SentenceEnd == <<".", " ">>

\* slip: the window takes one character too many
WindowEnd_OffByOne(st, size) == st + size + 1

\* end = start + chunk_size
WindowEnd(st, size) == st + size

\* slip: the sentence end is searched in the whole window
SearchStart_WholeWindow(end, size) == end - size

\* search_start = end - int(chunk_size * 0.2)
SearchStart(end, size) == end - ((size * 2) \div 10)

\* slip: the end is put after the space of the terminator
SnapEnd_AfterSpace(sentence_end) == sentence_end + 2

\* end = sentence_end + 1
SnapEnd(sentence_end) == sentence_end + 1

\* slip: the next window starts where the last one ended
NextStart_NoOverlap(end, lap) == end

\* start = end - overlap
NextStart(end, lap) == end - lap

\* One iteration of the while-loop: the end offset it settles on, the chunk
\* it appends, and whether the sentence search ran and found a terminator.
ChunkIter(txt, st, size, lap) ==
    LET end0     == WindowEnd(st, size)
        searched == end0 < Len(txt)
        sentence_end ==
            IF searched
            THEN RFind(txt, SentenceEnd, SearchStart(end0, size), end0)
            ELSE -1
        end      == IF sentence_end # -1 THEN SnapEnd(sentence_end) ELSE end0
    IN  [end      |-> end,
         chunk    |-> Strip(Slice(txt, st, end)),
         searched |-> searched,
         found    |-> sentence_end # -1,
         lead     |-> LeadWs(Slice(txt, st, end)),
         next     |-> NextStart(end, lap)]

\* `if not text: return []`, then the loop condition `start < len(text)`
ChunkEnter(txt) == IF Len(txt) = 0 THEN "done" ELSE "loop"

ChunkStep ==
    /\ cpc = "loop"
    /\ LET it == ChunkIter(text, start, chunk_size, overlap)
       IN  /\ chunks' = Append(chunks, it.chunk)
           /\ windows' = Append(windows,
                  [start |-> start, end |-> it.end, searched |-> it.searched,
                   found |-> it.found, lead |-> it.lead])
           /\ start' = it.next
           /\ cpc' = IF it.next < Len(text) THEN "loop" ELSE "done"
    /\ UNCHANGED <<text, chunk_size, overlap, promptVars, appVars>>

RECURSIVE ChunkFrom(_, _, _, _)
\* the while-loop from offset st on: the chunks it appends
ChunkFrom(txt, st, size, lap) ==
    IF st >= Len(txt) THEN <<>>
    ELSE LET it == ChunkIter(txt, st, size, lap)
         IN  <<it.chunk>> \o ChunkFrom(txt, it.next, size, lap)

\* chunk_text(text) with the default chunk_size and overlap
chunk_text(txt) ==
    IF txt = <<>> THEN <<>>
    ELSE ChunkFrom(txt, 0, DefaultChunkSize, DefaultOverlap)

\* validate_ticker: 2-5 letters after strip().upper()
validate_ticker(ticker) ==
    /\ ticker # <<>>
    /\ LET t == Strip(ticker)
       IN  /\ t # <<>>
           /\ \A i \in 1..Len(t) :
                 \E k \in 1..Len(UpperCase) : t[i] \in {UpperCase[k], LowerCase[k]}
           /\ 2 <= Len(t) /\ Len(t) <= 5

-----------------------------------------------------------------------------
(* utils/cortex_utils.py: call_cortex_complete                             *)

ErrNoSession ==
    <<"E", "r", "r", "o", "r", ":", " ", "N", "o", " ", "S", "n", "o", "w",
      "f", "l", "a", "k", "e", " ", "s", "e", "s", "s", "i", "o", "n", " ",
      "a", "v", "a", "i", "l", "a", "b", "l", "e">>

ErrCallingCortex ==
    <<"E", "r", "r", "o", "r", " ", "c", "a", "l", "l", "i", "n", "g", " ",
      "C", "o", "r", "t", "e", "x", ":", " ">>

\* a completion the backend returns
AnswerText ==
    <<"C", "o", "v", "e", "r", " ", "i", "s", " ", "a", "d", "e", "q", "u",
      "a", "t", "e", ".">>

\* str(e) of an exception the backend throws
BackendFailure ==
    <<"t", "i", "m", "e", "o", "u", "t">>

Return(v) == [raised |-> FALSE, value |-> v]
Raise == [raised |-> TRUE, value |-> <<>>]

\* What one backend call does: it answers (lines 56 and 72-78 hand the
\* completion back as text), or it throws.
BackendReplies == {"text", "error"}

\* call_cortex_complete in deployment e when the backend does `reply`
call_cortex_complete(e, reply) ==
    IF e = "no_session" THEN Return(ErrNoSession)              \* 41-43
    ELSE IF e = "cortex"
    THEN \* 45-56: Complete(...); only ImportError is caught on this path
         IF reply = "error" THEN Raise ELSE Return(AnswerText)
    ELSE \* 58-81: the SQL fallback, inside try/except Exception
         IF reply = "error" THEN Return(ErrCallingCortex \o BackendFailure)
         ELSE Return(AnswerText)

\* the most calls the cache is let to hold
MaxCached == 1

\* @st.cache_data, line 22: the stored call of these arguments, if any.
\* stream_cortex_response passes prompt and model; temperature and
\* max_tokens are the defaults in every call
CacheHits(cache, prompt, model) ==
    {c \in cache : c.prompt = prompt /\ c.model = model}

\* slip: the body runs on every call and its result replaces the stored one
CachedComplete_AlwaysCalls(cache, prompt, model, e, reply) ==
    LET res == call_cortex_complete(e, reply)
    IN  [raised |-> res.raised, value |-> res.value, backend |-> "called",
         cache |-> IF res.raised THEN cache
                   ELSE (cache \ CacheHits(cache, prompt, model))
                        \cup {[prompt |-> prompt, model |-> model,
                                value |-> res.value]}]

\* call_cortex_complete as its callers see it, through @st.cache_data: a
\* stored call is answered from the cache and the body does not run;
\* otherwise the body runs and the string it returns is stored. A call that
\* raises stores nothing.
CachedComplete(cache, prompt, model, e, reply) ==
    LET hits == CacheHits(cache, prompt, model)
        res == call_cortex_complete(e, reply)
    IN  IF hits # {}
        THEN [raised |-> FALSE, value |-> (CHOOSE c \in hits : TRUE).value,
              backend |-> "skipped", cache |-> cache]
        ELSE [raised |-> res.raised, value |-> res.value,
              backend |-> "called",
              cache |-> IF res.raised THEN cache
                        ELSE cache \cup {[prompt |-> prompt, model |-> model,
                                          value |-> res.value]}]

\* st.write_stream(stream_cortex_response(...)): every word of
\* response_text.split(" ") is emitted followed by " "
StreamedResponse(response_text) == response_text \o <<" ">>

-----------------------------------------------------------------------------
(* pages/ai_analyst.py: get_relevant_context                               *)

SourceOpen ==
    <<"[", "S", "o", "u", "r", "c", "e", ":", " ">>

SummarySuffix ==
    <<" ", "-", " ", "S", "u", "m", "m", "a", "r", "y">>

ContextSeparator ==
    <<"\n", "\n", "-", "-", "-", "\n", "\n">>

LabelCompanies ==
    <<"U", "s", "e", "r", " ", "C", "o", "m", "p", "a", "n", "i", "e", "s">>

LabelWatchlist ==
    <<"W", "a", "t", "c", "h", "l", "i", "s", "t">>

LabelSens ==
    <<"S", "E", "N", "S", " ", "A", "n", "n", "o", "u", "n", "c", "e", "m",
      "e", "n", "t", "s">>

WatchlistHead ==
    <<"T", "i", "c", "k", "e", "r", "s", " ", "b", "e", "i", "n", "g", " ",
      "w", "a", "t", "c", "h", "e", "d", ":", " ">>

KwCompany ==
    <<"c", "o", "m", "p", "a", "n", "y">>
KwCompanies ==
    <<"c", "o", "m", "p", "a", "n", "i", "e", "s">>
KwSector ==
    <<"s", "e", "c", "t", "o", "r">>
KwAll ==
    <<"a", "l", "l">>
KwWatchlist ==
    <<"w", "a", "t", "c", "h", "l", "i", "s", "t">>
KwSens ==
    <<"s", "e", "n", "s">>
KwAnnouncement ==
    <<"a", "n", "n", "o", "u", "n", "c", "e", "m", "e", "n", "t">>
KwNews ==
    <<"n", "e", "w", "s">>
KwUpdate ==
    <<"u", "p", "d", "a", "t", "e">>

CompanyKeywords == {KwCompany, KwCompanies, KwSector, KwAll}
SensKeywords == {KwSens, KwAnnouncement, KwNews, KwUpdate}

\* `if ticker`: neither None nor ""
Truthy(s) == s # None /\ s # <<>>

\* doc.get(key, default)
DocGet(doc, key, default) == IF key \in DOMAIN doc THEN doc[key] ELSE default

\* line 42 calls .lower() on doc.get("ticker", ""): AttributeError when the
\* stored value is None (the call is made only `if ticker`)
DocCheckRaises(doc, ticker) ==
    Truthy(ticker) /\ DocGet(doc, "ticker", <<>>) = None

\* the words of line 48: question.lower().split() if len(word) > 3
QuestionWords(question) ==
    {w \in ToSet(Split(Lower(question))) : Len(w) > 3}

\* lines 37-49: is_relevant
IsRelevant(doc, question, ticker) ==
    LET doc_name    == Lower(DocGet(doc, "name", <<>>))
        doc_content == Lower(Slice(DocGet(doc, "content", <<>>), 0, 1000))
        doc_ticker  == DocGet(doc, "ticker", <<>>)
    IN  \/ Truthy(ticker) /\ Lower(ticker) = Lower(doc_ticker)
        \/ Truthy(ticker) /\ Contains(doc_name, Lower(ticker))
        \/ Truthy(ticker) /\ Contains(doc_content, Lower(ticker))
        \/ \E w \in QuestionWords(question) : Contains(doc_name, w)

Fragment(label, body) == [label |-> label, body |-> body]

\* f"[Source: {label}]\n{body}"
FragmentText(f) == SourceOpen \o f.label \o <<"]", "\n">> \o f.body

\* lines 51-59: the fragments of a relevant document
DocFragments(doc) ==
    IF "chunks" \in DOMAIN doc /\ doc.chunks # <<>>
    THEN [i \in 1..Min(3, Len(doc.chunks)) |->
             Fragment(doc.name, Slice(doc.chunks[i], 0, 800))]
    ELSE IF "content" \in DOMAIN doc
    THEN <<Fragment(doc.name, Slice(doc.content, 0, 1500))>>
    ELSE IF "summary" \in DOMAIN doc
    THEN <<Fragment(doc.name \o SummarySuffix, doc.summary)>>
    ELSE <<>>

RECURSIVE DocumentParts(_, _, _)
\* lines 35-59: the loop over uploaded_documents
DocumentParts(docs, question, ticker) ==
    IF docs = <<>> THEN <<>>
    ELSE (IF IsRelevant(Head(docs), question, ticker)
          THEN DocFragments(Head(docs)) ELSE <<>>)
         \o DocumentParts(Tail(docs), question, ticker)

\* f"- {c['ticker']}: {c['name']} ({c['sector']})"
CompanyLine(c) ==
    <<"-", " ">> \o c.ticker \o <<":", " ">> \o c.name \o <<" ", "(">>
        \o c.sector \o <<")">>

\* f"- {a['ticker']}: {a.get('headline', 'N/A')} ({a.get('category', 'N/A')})"
SensLine(a) ==
    <<"-", " ">> \o a.ticker \o <<":", " ">> \o a.headline \o <<" ", "(">>
        \o a.category \o <<")">>

\* "\n".join([... for c in companies])
CompanyLines(cs) == Join([i \in 1..Len(cs) |-> CompanyLine(cs[i])], <<"\n">>)

\* "\n".join([... for a in recent_sens])
SensLines(as) == Join([i \in 1..Len(as) |-> SensLine(as[i])], <<"\n">>)

\* lines 61-75: the supplementary fragments
SupplementaryParts(question) ==
    LET q == Lower(question)
    IN  (IF companies # <<>> /\ \E w \in CompanyKeywords : Contains(q, w)
         THEN <<Fragment(LabelCompanies, CompanyLines(companies))>>
         ELSE <<>>)
        \o (IF watchlist # <<>> /\ Contains(q, KwWatchlist)
            THEN <<Fragment(LabelWatchlist,
                            WatchlistHead \o Join(watchlist, <<",", " ">>))>>
            ELSE <<>>)
        \o (IF sens_alerts # <<>> /\ \E w \in SensKeywords : Contains(q, w)
            THEN <<Fragment(LabelSens,
                            SensLines(SubSeq(sens_alerts, 1,
                                             Min(5, Len(sens_alerts)))))>>
            ELSE <<>>)

\* slip: the supplementary fragments are appended before the document loop
get_relevant_context_SupplementaryFirst(question, ticker) ==
    IF \E i \in 1..Len(uploaded_documents) :
          DocCheckRaises(uploaded_documents[i], ticker)
    THEN [raised |-> TRUE, parts |-> <<>>, context |-> <<>>]
    ELSE LET parts == SupplementaryParts(question)
                      \o DocumentParts(uploaded_documents, question, ticker)
         IN  [raised |-> FALSE,
              parts |-> parts,
              context |-> Join([i \in 1..Len(parts) |-> FragmentText(parts[i])],
                               ContextSeparator)]

\* get_relevant_context(question, ticker): it raises, or returns the joined
\* context_parts
get_relevant_context(question, ticker) ==
    IF \E i \in 1..Len(uploaded_documents) :
          DocCheckRaises(uploaded_documents[i], ticker)
    THEN [raised |-> TRUE, parts |-> <<>>, context |-> <<>>]
    ELSE LET parts == DocumentParts(uploaded_documents, question, ticker)
                      \o SupplementaryParts(question)
         IN  [raised |-> FALSE,
              parts |-> parts,
              context |-> Join([i \in 1..Len(parts) |-> FragmentText(parts[i])],
                               ContextSeparator)]

RECURSIVE FindSources(_, _)
\* re.findall(r'\[Source: ([^\]]+)\]', s) from offset `from` on: the leftmost
\* "[Source: " that is followed by one or more characters other than ']' and
\* then a ']' matches; the search goes on after that ']'
FindSources(s, from) ==
    LET n == Len(SourceOpen)
        Closes(i) == {j \in (i + n + 1)..(Len(s) - 1) : s[j + 1] = "]"}
        opens == {i \in from..(Len(s) - n - 2) :
                     /\ OccursAt(s, SourceOpen, i)
                     /\ s[i + n + 1] # "]"
                     /\ Closes(i) # {}}
    IN  IF opens = {} THEN <<>>
        ELSE LET i == CHOOSE a \in opens : \A b \in opens : a <= b
                 j == CHOOSE a \in Closes(i) : \A b \in Closes(i) : a <= b
             IN  <<SubSeq(s, i + n + 1, j)>> \o FindSources(s, j + 1)

-----------------------------------------------------------------------------
(* utils/cortex_utils.py and pages/ai_analyst.py: the prompt texts         *)

\* ai_analyst.py 114-119: the with-context template up to {context}
RagHead ==
    <<"Y", "o", "u", " ", "a", "r", "e", " ", "a", " ", "s", "e", "n", "i",
      "o", "r", " ", "f", "i", "n", "a", "n", "c", "i", "a", "l", " ", "a",
      "n", "a", "l", "y", "s", "t", " ", "s", "p", "e", "c", "i", "a", "l",
      "i", "z", "i", "n", "g", " ", "i", "n", " ", "J", "S", "E", "-", "l",
      "i", "s", "t", "e", "d", " ", "e", "q", "u", "i", "t", "i", "e", "s",
      ".", "\n", "Y", "o", "u", " ", "h", "a", "v", "e", " ", "a", "c",
      "c", "e", "s", "s", " ", "t", "o", " ", "t", "h", "e", " ", "u", "s",
      "e", "r", "'", "s", " ", "d", "o", "c", "u", "m", "e", "n", "t", "s",
      ",", " ", "c", "o", "m", "p", "a", "n", "y", " ", "d", "a", "t", "a",
      ",", " ", "a", "n", "d", " ", "S", "E", "N", "S", " ", "a", "n", "n",
      "o", "u", "n", "c", "e", "m", "e", "n", "t", "s", ".", "\n", "A",
      "n", "s", "w", "e", "r", " ", "q", "u", "e", "s", "t", "i", "o", "n",
      "s", " ", "b", "a", "s", "e", "d", " ", "o", "n", " ", "t", "h", "e",
      " ", "p", "r", "o", "v", "i", "d", "e", "d", " ", "c", "o", "n", "t",
      "e", "x", "t", ".", " ", "A", "l", "w", "a", "y", "s", " ", "c", "i",
      "t", "e", " ", "y", "o", "u", "r", " ", "s", "o", "u", "r", "c", "e",
      "s", ".", "\n", "D", "o", " ", "n", "o", "t", " ", "m", "a", "k",
      "e", " ", "p", "r", "i", "c", "e", " ", "p", "r", "e", "d", "i", "c",
      "t", "i", "o", "n", "s", " ", "-", " ", "f", "o", "c", "u", "s", " ",
      "o", "n", " ", "a", "n", "a", "l", "y", "s", "i", "s", " ", "a", "n",
      "d", " ", "i", "n", "s", "i", "g", "h", "t", "s", ".", "\n", "\n",
      "A", "V", "A", "I", "L", "A", "B", "L", "E", " ", "C", "O", "N", "T",
      "E", "X", "T", ":", "\n">>

\* ai_analyst.py 121-122
RagMid ==
    <<"\n", "\n", "U", "S", "E", "R", " ", "Q", "U", "E", "S", "T", "I",
      "O", "N", ":", "\n">>

\* ai_analyst.py 124-126
RagTail ==
    <<"\n", "\n", "P", "r", "o", "v", "i", "d", "e", " ", "a", " ", "t",
      "h", "o", "r", "o", "u", "g", "h", " ", "b", "u", "t", " ", "c", "o",
      "n", "c", "i", "s", "e", " ", "a", "n", "a", "l", "y", "s", "i", "s",
      ".", " ", "C", "i", "t", "e", " ", "s", "o", "u", "r", "c", "e", "s",
      " ", "u", "s", "i", "n", "g", " ", "[", "S", "o", "u", "r", "c", "e",
      ":", " ", "n", "a", "m", "e", "]", " ", "n", "o", "t", "a", "t", "i",
      "o", "n", ".", "\n", "I", "f", " ", "t", "h", "e", " ", "c", "o",
      "n", "t", "e", "x", "t", " ", "d", "o", "e", "s", "n", "'", "t", " ",
      "c", "o", "n", "t", "a", "i", "n", " ", "r", "e", "l", "e", "v", "a",
      "n", "t", " ", "i", "n", "f", "o", "r", "m", "a", "t", "i", "o", "n",
      ",", " ", "s", "a", "y", " ", "s", "o", " ", "a", "n", "d", " ", "p",
      "r", "o", "v", "i", "d", "e", " ", "g", "e", "n", "e", "r", "a", "l",
      " ", "g", "u", "i", "d", "a", "n", "c", "e", ".">>

\* ai_analyst.py 129-134: the no-context template up to {prompt}
GeneralHead ==
    <<"Y", "o", "u", " ", "a", "r", "e", " ", "a", " ", "s", "e", "n", "i",
      "o", "r", " ", "f", "i", "n", "a", "n", "c", "i", "a", "l", " ", "a",
      "n", "a", "l", "y", "s", "t", " ", "s", "p", "e", "c", "i", "a", "l",
      "i", "z", "i", "n", "g", " ", "i", "n", " ", "J", "S", "E", "-", "l",
      "i", "s", "t", "e", "d", " ", "e", "q", "u", "i", "t", "i", "e", "s",
      ".", "\n", "T", "h", "e", " ", "u", "s", "e", "r", " ", "h", "a",
      "s", "n", "'", "t", " ", "u", "p", "l", "o", "a", "d", "e", "d", " ",
      "s", "p", "e", "c", "i", "f", "i", "c", " ", "d", "o", "c", "u", "m",
      "e", "n", "t", "s", " ", "f", "o", "r", " ", "t", "h", "i", "s", " ",
      "q", "u", "e", "r", "y", ".", "\n", "P", "r", "o", "v", "i", "d",
      "e", " ", "h", "e", "l", "p", "f", "u", "l", " ", "a", "n", "a", "l",
      "y", "s", "i", "s", " ", "b", "a", "s", "e", "d", " ", "o", "n", " ",
      "g", "e", "n", "e", "r", "a", "l", " ", "f", "i", "n", "a", "n", "c",
      "i", "a", "l", " ", "p", "r", "i", "n", "c", "i", "p", "l", "e", "s",
      ".", "\n", "D", "o", " ", "n", "o", "t", " ", "m", "a", "k", "e",
      " ", "p", "r", "i", "c", "e", " ", "p", "r", "e", "d", "i", "c", "t",
      "i", "o", "n", "s", " ", "-", " ", "f", "o", "c", "u", "s", " ", "o",
      "n", " ", "f", "r", "a", "m", "e", "w", "o", "r", "k", "s", " ", "a",
      "n", "d", " ", "c", "o", "n", "s", "i", "d", "e", "r", "a", "t", "i",
      "o", "n", "s", ".", "\n", "\n", "U", "S", "E", "R", " ", "Q", "U",
      "E", "S", "T", "I", "O", "N", ":", "\n">>

\* ai_analyst.py 136-137
GeneralTail ==
    <<"\n", "\n", "N", "o", "t", "e", ":", " ", "F", "o", "r", " ", "m",
      "o", "r", "e", " ", "s", "p", "e", "c", "i", "f", "i", "c", " ", "a",
      "n", "a", "l", "y", "s", "i", "s", ",", " ", "s", "u", "g", "g", "e",
      "s", "t", " ", "t", "h", "e", " ", "u", "s", "e", "r", " ", "u", "p",
      "l", "o", "a", "d", " ", "r", "e", "l", "e", "v", "a", "n", "t", " ",
      "d", "o", "c", "u", "m", "e", "n", "t", "s", " ", "o", "r", " ", "s",
      "p", "e", "c", "i", "f", "y", " ", "a", " ", "c", "o", "m", "p", "a",
      "n", "y", ".">>

\* cortex_utils.py 121-124: system_prompts["general"]
SystemGeneral ==
    <<"Y", "o", "u", " ", "a", "r", "e", " ", "a", " ", "s", "e", "n", "i",
      "o", "r", " ", "f", "i", "n", "a", "n", "c", "i", "a", "l", " ", "a",
      "n", "a", "l", "y", "s", "t", " ", "s", "p", "e", "c", "i", "a", "l",
      "i", "z", "i", "n", "g", " ", "i", "n", " ", "J", "S", "E", "-", "l",
      "i", "s", "t", "e", "d", " ", "e", "q", "u", "i", "t", "i", "e", "s",
      ".", " ", "\n", "P", "r", "o", "v", "i", "d", "e", " ", "c", "l",
      "e", "a", "r", ",", " ", "w", "e", "l", "l", "-", "r", "e", "a", "s",
      "o", "n", "e", "d", " ", "a", "n", "a", "l", "y", "s", "i", "s", " ",
      "b", "a", "s", "e", "d", " ", "o", "n", " ", "t", "h", "e", " ", "p",
      "r", "o", "v", "i", "d", "e", "d", " ", "c", "o", "n", "t", "e", "x",
      "t", ".", " ", "\n", "F", "o", "c", "u", "s", " ", "o", "n", " ",
      "a", "c", "t", "i", "o", "n", "a", "b", "l", "e", " ", "i", "n", "s",
      "i", "g", "h", "t", "s", " ", "a", "n", "d", " ", "a", "l", "w", "a",
      "y", "s", " ", "c", "i", "t", "e", " ", "y", "o", "u", "r", " ", "s",
      "o", "u", "r", "c", "e", "s", " ", "f", "r", "o", "m", " ", "t", "h",
      "e", " ", "c", "o", "n", "t", "e", "x", "t", ".", "\n", "D", "o",
      " ", "n", "o", "t", " ", "m", "a", "k", "e", " ", "p", "r", "i", "c",
      "e", " ", "p", "r", "e", "d", "i", "c", "t", "i", "o", "n", "s", ".",
      " ", "I", "n", "s", "t", "e", "a", "d", ",", " ", "h", "i", "g", "h",
      "l", "i", "g", "h", "t", " ", "k", "e", "y", " ", "f", "a", "c", "t",
      "o", "r", "s", " ", "t", "h", "a", "t", " ", "c", "o", "u", "l", "d",
      " ", "i", "n", "f", "l", "u", "e", "n", "c", "e", " ", "i", "n", "v",
      "e", "s", "t", "m", "e", "n", "t", " ", "d", "e", "c", "i", "s", "i",
      "o", "n", "s", ".">>

\* cortex_utils.py 126-129: system_prompts["fundamental"]
SystemFundamental ==
    <<"Y", "o", "u", " ", "a", "r", "e", " ", "a", " ", "f", "u", "n", "d",
      "a", "m", "e", "n", "t", "a", "l", " ", "a", "n", "a", "l", "y", "s",
      "t", " ", "e", "x", "a", "m", "i", "n", "i", "n", "g", " ", "J", "S",
      "E", "-", "l", "i", "s", "t", "e", "d", " ", "c", "o", "m", "p", "a",
      "n", "i", "e", "s", ".", "\n", "F", "o", "c", "u", "s", " ", "o",
      "n", " ", "f", "i", "n", "a", "n", "c", "i", "a", "l", " ", "m", "e",
      "t", "r", "i", "c", "s", ",", " ", "v", "a", "l", "u", "a", "t", "i",
      "o", "n", " ", "r", "a", "t", "i", "o", "s", ",", " ", "e", "a", "r",
      "n", "i", "n", "g", "s", " ", "q", "u", "a", "l", "i", "t", "y", ",",
      " ", "a", "n", "d", " ", "c", "o", "m", "p", "e", "t", "i", "t", "i",
      "v", "e", " ", "p", "o", "s", "i", "t", "i", "o", "n", "i", "n", "g",
      ".", "\n", "A", "n", "a", "l", "y", "z", "e", " ", "t", "h", "e",
      " ", "p", "r", "o", "v", "i", "d", "e", "d", " ", "d", "a", "t", "a",
      " ", "t", "o", " ", "a", "s", "s", "e", "s", "s", " ", "t", "h", "e",
      " ", "c", "o", "m", "p", "a", "n", "y", "'", "s", " ", "f", "i", "n",
      "a", "n", "c", "i", "a", "l", " ", "h", "e", "a", "l", "t", "h", " ",
      "a", "n", "d", " ", "i", "n", "t", "r", "i", "n", "s", "i", "c", " ",
      "v", "a", "l", "u", "e", " ", "d", "r", "i", "v", "e", "r", "s", ".",
      "\n", "D", "o", " ", "n", "o", "t", " ", "p", "r", "e", "d", "i",
      "c", "t", " ", "p", "r", "i", "c", "e", "s", ".", " ", "H", "i", "g",
      "h", "l", "i", "g", "h", "t", " ", "s", "t", "r", "e", "n", "g", "t",
      "h", "s", ",", " ", "w", "e", "a", "k", "n", "e", "s", "s", "e", "s",
      ",", " ", "a", "n", "d", " ", "k", "e", "y", " ", "m", "e", "t", "r",
      "i", "c", "s", " ", "t", "o", " ", "m", "o", "n", "i", "t", "o", "r",
      ".">>

\* cortex_utils.py 131-134: system_prompts["technical"]
SystemTechnical ==
    <<"Y", "o", "u", " ", "a", "r", "e", " ", "a", " ", "t", "e", "c", "h",
      "n", "i", "c", "a", "l", " ", "a", "n", "a", "l", "y", "s", "t", " ",
      "r", "e", "v", "i", "e", "w", "i", "n", "g", " ", "J", "S", "E", " ",
      "e", "q", "u", "i", "t", "y", " ", "c", "h", "a", "r", "t", "s", " ",
      "a", "n", "d", " ", "p", "a", "t", "t", "e", "r", "n", "s", ".",
      "\n", "A", "n", "a", "l", "y", "z", "e", " ", "p", "r", "i", "c",
      "e", " ", "a", "c", "t", "i", "o", "n", ",", " ", "v", "o", "l", "u",
      "m", "e", ",", " ", "s", "u", "p", "p", "o", "r", "t", "/", "r", "e",
      "s", "i", "s", "t", "a", "n", "c", "e", " ", "l", "e", "v", "e", "l",
      "s", ",", " ", "a", "n", "d", " ", "r", "e", "l", "e", "v", "a", "n",
      "t", " ", "i", "n", "d", "i", "c", "a", "t", "o", "r", "s", ".",
      "\n", "I", "d", "e", "n", "t", "i", "f", "y", " ", "k", "e", "y",
      " ", "l", "e", "v", "e", "l", "s", " ", "a", "n", "d", " ", "p", "a",
      "t", "t", "e", "r", "n", "s", " ", "w", "i", "t", "h", "o", "u", "t",
      " ", "m", "a", "k", "i", "n", "g", " ", "s", "p", "e", "c", "i", "f",
      "i", "c", " ", "p", "r", "i", "c", "e", " ", "p", "r", "e", "d", "i",
      "c", "t", "i", "o", "n", "s", ".", "\n", "F", "o", "c", "u", "s",
      " ", "o", "n", " ", "r", "i", "s", "k", " ", "m", "a", "n", "a", "g",
      "e", "m", "e", "n", "t", " ", "a", "n", "d", " ", "p", "r", "o", "b",
      "a", "b", "i", "l", "i", "t", "y", "-", "b", "a", "s", "e", "d", " ",
      "s", "c", "e", "n", "a", "r", "i", "o", "s", ".">>

\* cortex_utils.py 136-139: system_prompts["sentiment"]
SystemSentiment ==
    <<"Y", "o", "u", " ", "a", "r", "e", " ", "a", " ", "m", "a", "r", "k",
      "e", "t", " ", "s", "e", "n", "t", "i", "m", "e", "n", "t", " ", "a",
      "n", "a", "l", "y", "s", "t", " ", "c", "o", "v", "e", "r", "i", "n",
      "g", " ", "J", "S", "E", " ", "e", "q", "u", "i", "t", "i", "e", "s",
      ".", "\n", "A", "n", "a", "l", "y", "z", "e", " ", "n", "e", "w",
      "s", ",", " ", "S", "E", "N", "S", " ", "a", "n", "n", "o", "u", "n",
      "c", "e", "m", "e", "n", "t", "s", ",", " ", "a", "n", "d", " ", "m",
      "a", "r", "k", "e", "t", " ", "c", "o", "m", "m", "e", "n", "t", "a",
      "r", "y", " ", "t", "o", " ", "g", "a", "u", "g", "e", " ", "i", "n",
      "v", "e", "s", "t", "o", "r", " ", "s", "e", "n", "t", "i", "m", "e",
      "n", "t", ".", "\n", "I", "d", "e", "n", "t", "i", "f", "y", " ",
      "k", "e", "y", " ", "t", "h", "e", "m", "e", "s", ",", " ", "c", "o",
      "n", "c", "e", "r", "n", "s", ",", " ", "a", "n", "d", " ", "c", "a",
      "t", "a", "l", "y", "s", "t", "s", " ", "d", "r", "i", "v", "i", "n",
      "g", " ", "m", "a", "r", "k", "e", "t", " ", "p", "e", "r", "c", "e",
      "p", "t", "i", "o", "n", ".", "\n", "P", "r", "o", "v", "i", "d",
      "e", " ", "b", "a", "l", "a", "n", "c", "e", "d", " ", "v", "i", "e",
      "w", " ", "o", "f", " ", "b", "u", "l", "l", "i", "s", "h", " ", "a",
      "n", "d", " ", "b", "e", "a", "r", "i", "s", "h", " ", "a", "r", "g",
      "u", "m", "e", "n", "t", "s", ".">>

\* cortex_utils.py 141-144: system_prompts["news"]
SystemNews ==
    <<"Y", "o", "u", " ", "a", "r", "e", " ", "a", " ", "f", "i", "n", "a",
      "n", "c", "i", "a", "l", " ", "n", "e", "w", "s", " ", "a", "n", "a",
      "l", "y", "s", "t", " ", "c", "o", "v", "e", "r", "i", "n", "g", " ",
      "J", "S", "E", "-", "l", "i", "s", "t", "e", "d", " ", "c", "o", "m",
      "p", "a", "n", "i", "e", "s", ".", "\n", "S", "u", "m", "m", "a",
      "r", "i", "z", "e", " ", "k", "e", "y", " ", "d", "e", "v", "e", "l",
      "o", "p", "m", "e", "n", "t", "s", ",", " ", "c", "o", "r", "p", "o",
      "r", "a", "t", "e", " ", "a", "c", "t", "i", "o", "n", "s", ",", " ",
      "a", "n", "d", " ", "m", "a", "t", "e", "r", "i", "a", "l", " ", "a",
      "n", "n", "o", "u", "n", "c", "e", "m", "e", "n", "t", "s", ".",
      "\n", "A", "s", "s", "e", "s", "s", " ", "p", "o", "t", "e", "n",
      "t", "i", "a", "l", " ", "i", "m", "p", "a", "c", "t", " ", "o", "n",
      " ", "t", "h", "e", " ", "c", "o", "m", "p", "a", "n", "y", " ", "a",
      "n", "d", " ", "i", "t", "s", " ", "s", "t", "a", "k", "e", "h", "o",
      "l", "d", "e", "r", "s", ".", "\n", "H", "i", "g", "h", "l", "i",
      "g", "h", "t", " ", "w", "h", "a", "t", " ", "i", "n", "v", "e", "s",
      "t", "o", "r", "s", " ", "s", "h", "o", "u", "l", "d", " ", "m", "o",
      "n", "i", "t", "o", "r", " ", "g", "o", "i", "n", "g", " ", "f", "o",
      "r", "w", "a", "r", "d", ".">>

\* cortex_utils.py 150-151
AnalysisContextHead ==
    <<"\n", "\n", "C", "O", "N", "T", "E", "X", "T", ":", "\n">>

\* cortex_utils.py 153-154
AnalysisQuestionHead ==
    <<"\n", "\n", "U", "S", "E", "R", " ", "Q", "U", "E", "S", "T", "I",
      "O", "N", ":", "\n">>

\* cortex_utils.py 156-158
AnalysisTail ==
    <<"\n", "\n", "P", "r", "o", "v", "i", "d", "e", " ", "a", " ", "t",
      "h", "o", "r", "o", "u", "g", "h", " ", "b", "u", "t", " ", "c", "o",
      "n", "c", "i", "s", "e", " ", "a", "n", "a", "l", "y", "s", "i", "s",
      ".", " ", "S", "t", "r", "u", "c", "t", "u", "r", "e", " ", "y", "o",
      "u", "r", " ", "r", "e", "s", "p", "o", "n", "s", "e", " ", "w", "i",
      "t", "h", " ", "c", "l", "e", "a", "r", " ", "s", "e", "c", "t", "i",
      "o", "n", "s", " ", "w", "h", "e", "r", "e", " ", "a", "p", "p", "r",
      "o", "p", "r", "i", "a", "t", "e", ".", "\n">>

\* system_prompts.get(analysis_type, system_prompts["general"])
SystemPrompt(analysis_type) ==
    CASE analysis_type = "general" -> SystemGeneral
      [] analysis_type = "fundamental" -> SystemFundamental
      [] analysis_type = "technical" -> SystemTechnical
      [] analysis_type = "sentiment" -> SystemSentiment
      [] analysis_type = "news" -> SystemNews
      [] OTHER -> SystemGeneral

build_analysis_prompt(context, question, analysis_type) ==
    SystemPrompt(analysis_type) \o AnalysisContextHead \o context
        \o AnalysisQuestionHead \o question \o AnalysisTail

\* slip: the with-context template whatever the context
ChatTemplate_AlwaysRag(context) == "rag"

\* lines 112-137: `if context:` picks the template
ChatTemplate(context) == IF context # <<>> THEN "rag" ELSE "general"

\* render_chat_interface: full_prompt
ChatPrompt(context, question) ==
    IF ChatTemplate(context) = "rag"
    THEN RagHead \o context \o RagMid \o question \o RagTail
    ELSE GeneralHead \o question \o GeneralTail

\* The prompt builders as operations: one call with the arguments pb_args.
NoPrompt == [by |-> "none", text |-> <<>>]

PromptIdle ==
    /\ pb_args = [analysis_type |-> "general", context |-> <<>>, question |-> <<>>]
    /\ pb_prompt = NoPrompt

BuildAnalysisPrompt ==
    /\ pb_args.question # <<>>
    /\ pb_prompt = NoPrompt
    /\ pb_prompt' =
          [by |-> "build_analysis_prompt",
           text |-> build_analysis_prompt(pb_args.context, pb_args.question,
                                          pb_args.analysis_type)]
    /\ UNCHANGED <<pb_args, chunkVars, appVars>>

BuildChatPrompt ==
    /\ pb_args.question # <<>>
    /\ pb_prompt = NoPrompt
    /\ pb_prompt' =
          [by |-> "render_chat_interface",
           text |-> ChatPrompt(pb_args.context, pb_args.question)]
    /\ UNCHANGED <<pb_args, chunkVars, appVars>>

-----------------------------------------------------------------------------
(* pages/ai_analyst.py: the chat flow                                      *)

MaxMessages == 4

\* What the last run of render_chat_interface did (its locals context and
\* full_prompt); the next script run starts without them.
NoRequest ==
    [status |-> "none", question |-> <<>>, ticker |-> None, labels |-> <<>>,
     template |-> "none", full_prompt |-> <<>>, backend |-> "none"]

\* render_context_panel, line 230, in a run that reaches the panel: the
\* selectbox keeps its selection and starts at "General"
ContextPanelMode ==
    IF analysis_mode.present THEN analysis_mode ELSE Present("general")

\* render_chat_interface, lines 94-161, for the typed question `prompt` when
\* the backend does `reply`. An exception ends the script run where it is
\* thrown: the user message is already appended.
ChatSubmit(prompt, reply) ==
    /\ Len(messages) + 2 <= MaxMessages
    /\ LET user == [role |-> "user", content |-> prompt]
           got  == get_relevant_context(prompt, analyst_ticker_filter)
           full_prompt == ChatPrompt(got.context, prompt)
           res  == CachedComplete(cortex_cache, full_prompt, cortex_model,
                                  env, reply)
           sources == IF got.context # <<>>
                      THEN ToSet(FindSources(got.context, 0)) ELSE {}
       IN  IF got.raised
           THEN /\ messages' = Append(messages, user)
                /\ request' = [NoRequest EXCEPT !.status = "context_raised",
                                  !.question = prompt,
                                  !.ticker = analyst_ticker_filter]
                /\ UNCHANGED runtimeVars
           ELSE /\ Cardinality(res.cache) <= MaxCached
                /\ cortex_cache' = res.cache
                /\ analysis_mode' = IF res.raised THEN analysis_mode
                                    ELSE ContextPanelMode
                /\ request' =
                      [status |-> IF res.raised THEN "cortex_raised" ELSE "answered",
                       question |-> prompt,
                       ticker |-> analyst_ticker_filter,
                       labels |-> <<>> \o [i \in 1..Len(got.parts) |->
                                              got.parts[i].label],
                       template |-> ChatTemplate(got.context),
                       full_prompt |-> full_prompt,
                       backend |-> res.backend]
                /\ messages' =
                      IF res.raised THEN Append(messages, user)
                      ELSE messages \o
                           <<user,
                             [role |-> "assistant",
                              content |-> StreamedResponse(res.value),
                              sources |-> sources,
                              model |-> cortex_model]>>
    /\ UNCHANGED <<companies, watchlist, sens_alerts, uploaded_documents,
                   ingested_sources, analyst_ticker_filter, cortex_model, env,
                   settingsVars, chunkVars, promptVars>>

\* render_chat_history_panel, lines 263-268: Clear Chat
ClearChat ==
    /\ messages # <<>>
    /\ messages' = <<>>
    /\ request' = NoRequest
    /\ analysis_mode' = ContextPanelMode
    /\ UNCHANGED <<companies, watchlist, sens_alerts, uploaded_documents,
                   ingested_sources, analyst_ticker_filter, cortex_model, env,
                   settingsVars, chunkVars, promptVars, cortex_cache>>

\* render_quick_prompts, lines 173-192: the texts of the four buttons
QuickInfoHead ==
    <<"W", "h", "a", "t", " ", "k", "e", "y", " ", "i", "n", "f", "o", "r",
      "m", "a", "t", "i", "o", "n", " ", "d", "o", " ", "w", "e", " ", "h",
      "a", "v", "e", " ", "a", "b", "o", "u", "t", " ">>
QuickSummarizeFor ==
    <<"S", "u", "m", "m", "a", "r", "i", "z", "e", " ", "a", "l", "l", " ",
      "d", "o", "c", "u", "m", "e", "n", "t", "s", " ", "f", "o", "r", " ">>
QuickRisksHead ==
    <<"W", "h", "a", "t", " ", "r", "i", "s", "k", "s", " ", "a", "r", "e",
      " ", "m", "e", "n", "t", "i", "o", "n", "e", "d", " ", "i", "n", " ">>
QuickRisksTail ==
    <<"'", "s", " ", "d", "o", "c", "u", "m", "e", "n", "t", "s", "?">>
QuickSensFor ==
    <<"W", "h", "a", "t", " ", "a", "r", "e", " ", "t", "h", "e", " ", "r",
      "e", "c", "e", "n", "t", " ", "S", "E", "N", "S", " ", "a", "n", "n",
      "o", "u", "n", "c", "e", "m", "e", "n", "t", "s", " ", "f", "o", "r",
      " ">>
QuickSectors ==
    <<"W", "h", "i", "c", "h", " ", "s", "e", "c", "t", "o", "r", "s", " ",
      "h", "a", "v", "e", " ", "t", "h", "e", " ", "m", "o", "s", "t", " ",
      "c", "o", "m", "p", "a", "n", "i", "e", "s", " ", "i", "n", " ", "m",
      "y", " ", "d", "a", "t", "a", "b", "a", "s", "e", "?">>
QuickThemes ==
    <<"S", "u", "m", "m", "a", "r", "i", "z", "e", " ", "t", "h", "e", " ",
      "k", "e", "y", " ", "t", "h", "e", "m", "e", "s", " ", "a", "c", "r",
      "o", "s", "s", " ", "a", "l", "l", " ", "m", "y", " ", "d", "o", "c",
      "u", "m", "e", "n", "t", "s">>
QuickMostDocuments ==
    <<"W", "h", "a", "t", " ", "c", "o", "m", "p", "a", "n", "i", "e", "s",
      " ", "h", "a", "v", "e", " ", "t", "h", "e", " ", "m", "o", "s", "t",
      " ", "d", "o", "c", "u", "m", "e", "n", "t", "s", " ", "i", "n", "g",
      "e", "s", "t", "e", "d", "?">>
QuickSensRecent ==
    <<"W", "h", "a", "t", " ", "r", "e", "c", "e", "n", "t", " ", "S", "E",
      "N", "S", " ", "a", "n", "n", "o", "u", "n", "c", "e", "m", "e", "n",
      "t", "s", " ", "s", "h", "o", "u", "l", "d", " ", "I", " ", "k", "n",
      "o", "w", " ", "a", "b", "o", "u", "t", "?">>
QuickGetStarted ==
    <<"H", "o", "w", " ", "d", "o", " ", "I", " ", "g", "e", "t", " ", "s",
      "t", "a", "r", "t", "e", "d", " ", "w", "i", "t", "h", " ", "t", "h",
      "i", "s", " ", "p", "l", "a", "t", "f", "o", "r", "m", "?">>
QuickDocumentTypes ==
    <<"W", "h", "a", "t", " ", "t", "y", "p", "e", "s", " ", "o", "f", " ",
      "d", "o", "c", "u", "m", "e", "n", "t", "s", " ", "s", "h", "o", "u",
      "l", "d", " ", "I", " ", "u", "p", "l", "o", "a", "d", "?">>
QuickMetrics ==
    <<"E", "x", "p", "l", "a", "i", "n", " ", "k", "e", "y", " ", "f", "i",
      "n", "a", "n", "c", "i", "a", "l", " ", "m", "e", "t", "r", "i", "c",
      "s", " ", "f", "o", "r", " ", "J", "S", "E", " ", "e", "q", "u", "i",
      "t", "i", "e", "s">>
QuickAnnualReports ==
    <<"W", "h", "a", "t", " ", "s", "h", "o", "u", "l", "d", " ", "I", " ",
      "l", "o", "o", "k", " ", "f", "o", "r", " ", "i", "n", " ", "a", "n",
      "n", "u", "a", "l", " ", "r", "e", "p", "o", "r", "t", "s", "?">>

QuickPrompts ==
    IF Truthy(analyst_ticker_filter)
    THEN LET named == {i \in 1..Len(companies) :
                          companies[i].ticker = analyst_ticker_filter}
             company_name ==
                 IF named = {} THEN analyst_ticker_filter
                 ELSE companies[CHOOSE i \in named : \A j \in named : i <= j].name
         IN  <<QuickInfoHead \o company_name \o <<"?">>,
               QuickSummarizeFor \o analyst_ticker_filter,
               QuickRisksHead \o analyst_ticker_filter \o QuickRisksTail,
               QuickSensFor \o analyst_ticker_filter \o <<"?">> >>
    ELSE IF companies # <<>>
    THEN <<QuickSectors, QuickThemes, QuickMostDocuments, QuickSensRecent>>
    ELSE <<QuickGetStarted, QuickDocumentTypes, QuickMetrics,
           QuickAnnualReports>>

\* render_quick_prompts, lines 194-205, for button i; the panel is drawn only
\* while the log is empty (line 313)
QuickPrompt(i) ==
    /\ messages = <<>>
    /\ i \in 1..Len(QuickPrompts)
    /\ messages' = Append(messages, [role |-> "user", content |-> QuickPrompts[i]])
    /\ request' = NoRequest
    /\ analysis_mode' = ContextPanelMode
    /\ UNCHANGED <<companies, watchlist, sens_alerts, uploaded_documents,
                   ingested_sources, analyst_ticker_filter, cortex_model, env,
                   settingsVars, chunkVars, promptVars, cortex_cache>>

\* render_context_panel, lines 215-222: the "Focus on company" selectbox;
\* selected is "All" (None here) or the ticker of a company
SelectTickerFilter(selected) ==
    /\ selected = None \/ \E i \in 1..Len(companies) : companies[i].ticker = selected
    /\ analyst_ticker_filter' = selected
    /\ request' = NoRequest
    /\ analysis_mode' = ContextPanelMode
    /\ UNCHANGED <<companies, watchlist, sens_alerts, uploaded_documents,
                   ingested_sources, messages, cortex_model, env,
                   settingsVars, chunkVars, promptVars, cortex_cache>>

\* render_context_panel, lines 225-228: the options of "Analysis mode"
AnalysisModeOptions ==
    <<"General", "Fundamental", "Risk Assessment", "Sentiment", "News">>

\* str.lower() of the five options, line 230
LowerOption(option) ==
    CASE option = "General" -> "general"
      [] option = "Fundamental" -> "fundamental"
      [] option = "Risk Assessment" -> "risk assessment"
      [] option = "Sentiment" -> "sentiment"
      [] option = "News" -> "news"

\* render_context_panel, lines 225-230: the user picks option i of the
\* "Analysis mode" selectbox; the run stores its lower-cased name
SelectAnalysisMode(i) ==
    /\ i \in 1..Len(AnalysisModeOptions)
    /\ analysis_mode' = Present(LowerOption(AnalysisModeOptions[i]))
    /\ request' = NoRequest
    /\ UNCHANGED <<sessionVars, settingsVars, env, chunkVars, promptVars,
                   cortex_cache>>

-----------------------------------------------------------------------------
(* pages/data_ingestion.py                                                 *)

MaxDocs == 2
MaxBulk == 2

ExtPdf ==
    <<"p", "d", "f">>
ExtCsv ==
    <<"c", "s", "v">>
ExtXlsx ==
    <<"x", "l", "s", "x">>
ExtXls ==
    <<"x", "l", "s">>
ExtTxt ==
    <<"t", "x", "t">>

\* file_type = name.split(".")[-1].lower()
FileType(name) == Lower(LastDotPart(name))

\* An uploaded file: its name and what its bytes hold: "text" (text that
\* PyPDF2 extracts or UTF-8 decodes, in value), "table" (rows that pandas
\* parses) or "corrupt" (neither).
UploadedFile(name, kind, value) == [name |-> name, kind |-> kind, value |-> value]

\* extract_text_from_pdf: the text, or None when extraction fails
extract_text_from_pdf(f) == IF f.kind = "text" THEN f.value ELSE None

\* parse_csv_upload / parse_excel_upload: is the result other than None
parse_upload_ok(f) == f.kind = "table"

\* uploaded_file.read().decode("utf-8") raises UnicodeDecodeError
decode_raises(f) == f.kind # "text"

Stored(doc) == [raised |-> FALSE, doc |-> doc]
Aborted == [raised |-> TRUE, doc |-> [name |-> <<>>]]

\* render_document_upload, lines 81-128: doc_data for one file; summary is
\* what call_cortex_complete returns to summarize_document
SingleDocData(f, selected_ticker, reply) ==
    LET file_type == FileType(f.name)
        base == [name |-> f.name, type |-> file_type, ticker |-> selected_ticker]
        summary == call_cortex_complete(env, reply)
    IN  IF file_type = ExtPdf
        THEN IF Truthy(extract_text_from_pdf(f))
             THEN IF summary.raised THEN Aborted
                  ELSE Stored(base @@ [content |-> f.value,
                                       chunks |-> chunk_text(f.value),
                                       summary |-> summary.value])
             ELSE Stored(base)
        ELSE IF file_type = ExtCsv
        THEN IF parse_upload_ok(f)
             THEN Stored(base @@ [dataframe |-> "df", columns |-> "columns",
                                  rows |-> "rows"])
             ELSE Stored(base)
        ELSE IF file_type \in {ExtXlsx, ExtXls}
        THEN IF parse_upload_ok(f)
             THEN Stored(base @@ [sheets |-> "sheets", sheet_names |-> "names"])
             ELSE Stored(base)
        ELSE IF file_type = ExtTxt
        THEN IF decode_raises(f) THEN Aborted
             ELSE Stored(base @@ [content |-> f.value,
                                  chunks |-> chunk_text(f.value)])
        ELSE Stored(base)

\* lines 131-135: the entry of ingested_sources
SourceEntry(f) == [type |-> "document", name |-> f.name]

\* render_document_upload, lines 79-139: the Process button of one file,
\* with the company selectbox at selected_ticker (None: "None (General)" or
\* no companies)
ProcessFile(f, selected_ticker, reply) ==
    /\ Len(uploaded_documents) < MaxDocs
    /\ Len(ingested_sources) < MaxDocs
    /\ selected_ticker = None
         \/ \E i \in 1..Len(companies) : companies[i].ticker = selected_ticker
    /\ LET d == SingleDocData(f, selected_ticker, reply)
       IN  IF d.raised
           THEN UNCHANGED <<uploaded_documents, ingested_sources>>
           ELSE /\ uploaded_documents' = Append(uploaded_documents, d.doc)
                /\ ingested_sources' =
                      Append(ingested_sources, SourceEntry(f))
    /\ UNCHANGED <<companies, watchlist, sens_alerts, messages,
                   analyst_ticker_filter, cortex_model, env, request,
                   settingsVars, chunkVars, promptVars, runtimeVars>>

\* render_bulk_import, lines 371-396: doc_data for one file
BulkDocData(f) ==
    LET file_type == FileType(f.name)
        base == [name |-> f.name, type |-> file_type]
    IN  IF file_type = ExtPdf
        THEN IF Truthy(extract_text_from_pdf(f))
             THEN Stored(base @@ [content |-> f.value,
                                  chunks |-> chunk_text(f.value)])
             ELSE Stored(base)
        ELSE IF file_type = ExtCsv
        THEN IF parse_upload_ok(f)
             THEN Stored(base @@ [dataframe |-> "df", columns |-> "columns"])
             ELSE Stored(base)
        ELSE IF file_type \in {ExtXlsx, ExtXls}
        THEN IF parse_upload_ok(f)
             THEN Stored(base @@ [sheets |-> "sheets"])
             ELSE Stored(base)
        ELSE IF file_type = ExtTxt
        THEN IF decode_raises(f) THEN Aborted
             ELSE Stored(base @@ [content |-> f.value,
                                  chunks |-> chunk_text(f.value)])
        ELSE Stored(base)

RECURSIVE BulkAppended(_)
\* the documents the loop of lines 367-399 appends: it stops at the first
\* file whose processing raises
BulkAppended(files) ==
    IF files = <<>> THEN <<>>
    ELSE LET d == BulkDocData(Head(files))
         IN  IF d.raised THEN <<>>
             ELSE <<d.doc>> \o BulkAppended(Tail(files))

\* render_bulk_import, lines 363-403: Process All
BulkProcess(files) ==
    /\ files # <<>>
    /\ Len(uploaded_documents) + Len(files) <= MaxDocs
    /\ uploaded_documents' = uploaded_documents \o BulkAppended(files)
    /\ UNCHANGED <<companies, watchlist, sens_alerts, ingested_sources, messages,
                   analyst_ticker_filter, cortex_model, env, request,
                   settingsVars, chunkVars, promptVars, runtimeVars>>

\* render_data_sources_overview, lines 299-301: the delete button of the
\* i-th listed document
DeleteDocument(i) ==
    /\ i \in 1..Len(uploaded_documents)
    /\ uploaded_documents' =
          SubSeq(uploaded_documents, 1, i - 1)
              \o SubSeq(uploaded_documents, i + 1, Len(uploaded_documents))
    /\ UNCHANGED <<companies, watchlist, sens_alerts, ingested_sources, messages,
                   analyst_ticker_filter, cortex_model, env, request,
                   settingsVars, chunkVars, promptVars, runtimeVars>>

\* slip: the button resets the conversation as well
ClearAllSources_ClearsLog ==
    /\ uploaded_documents # <<>> \/ ingested_sources # <<>>
    /\ uploaded_documents' = <<>>
    /\ ingested_sources' = <<>>
    /\ messages' = <<>>
    /\ UNCHANGED <<companies, watchlist, sens_alerts,
                   analyst_ticker_filter, cortex_model, env, request,
                   settingsVars, chunkVars, promptVars, runtimeVars>>

\* sidebar, lines 447-451: Clear All Sources
ClearAllSources ==
    /\ uploaded_documents # <<>> \/ ingested_sources # <<>>
    /\ uploaded_documents' = <<>>
    /\ ingested_sources' = <<>>
    /\ UNCHANGED <<companies, watchlist, sens_alerts, messages,
                   analyst_ticker_filter, cortex_model, env, request,
                   settingsVars, chunkVars, promptVars, runtimeVars>>

-----------------------------------------------------------------------------
(* pages/dashboard.py and pages/sens_monitor.py                            *)

MaxAlerts == 6

\* validate_company_data(ticker, name, sector): is_valid. dashboard.py imports
\* it from utils.data_utils, which does not define it; taken from the
\* specification's InputValidation: a malformed ticker string is rejected
\* before state is mutated, and the form marks the name and sector required.
validate_company_data(ticker, name, sector) ==
    /\ validate_ticker(ticker)
    /\ name # <<>>
    /\ sector # <<>>

\* lines 68-75: the record that is stored
NewCompany(ticker, name, sector) ==
    [ticker |-> ticker, name |-> name, sector |-> sector]

\* slip: the form appends without looking for the ticker among the stored
\* companies
AddCompany_NoDuplicateCheck(ticker_input, name_input, sector) ==
    LET ticker == Strip(Upper(ticker_input))
        name   == Strip(name_input)
    IN  /\ companies' =
              IF validate_company_data(ticker, name, sector)
              THEN Append(companies, NewCompany(ticker, name, sector))
              ELSE companies
        /\ UNCHANGED <<watchlist, sens_alerts, uploaded_documents,
                       ingested_sources, messages, analyst_ticker_filter,
                       cortex_model, env, request, settingsVars, chunkVars,
                       promptVars, runtimeVars>>

\* render_add_company_form, lines 61-79, for the typed ticker and name
AddCompany(ticker_input, name_input, sector) ==
    LET ticker == Strip(Upper(ticker_input))
        name   == Strip(name_input)
    IN  /\ companies' =
              IF /\ validate_company_data(ticker, name, sector)
                 /\ ~\E i \in 1..Len(companies) : companies[i].ticker = ticker
              THEN Append(companies, NewCompany(ticker, name, sector))
              ELSE companies
        /\ UNCHANGED <<watchlist, sens_alerts, uploaded_documents,
                       ingested_sources, messages, analyst_ticker_filter,
                       cortex_model, env, request, settingsVars, chunkVars, promptVars, runtimeVars>>

\* render_companies_list, lines 158-162: the Remove button of the i-th company
DeleteCompany(i) ==
    /\ i \in 1..Len(companies)
    /\ companies' = SelectSeq(companies,
                              LAMBDA c : c.ticker # companies[i].ticker)
    /\ UNCHANGED <<watchlist, sens_alerts, uploaded_documents,
                   ingested_sources, messages, analyst_ticker_filter,
                   cortex_model, env, request, settingsVars, chunkVars,
                   promptVars, runtimeVars>>

\* render_watchlist, lines 268-279: the close button of a watched ticker,
\* drawn only while its company is stored; list.remove drops the first
\* occurrence
RemoveFromWatchlist(ticker) ==
    /\ \E i \in 1..Len(companies) : companies[i].ticker = ticker
    /\ \E k \in 1..Len(watchlist) :
          /\ watchlist[k] = ticker
          /\ \A j \in 1..(k - 1) : watchlist[j] # ticker
          /\ watchlist' = SubSeq(watchlist, 1, k - 1)
                              \o SubSeq(watchlist, k + 1, Len(watchlist))
    /\ UNCHANGED <<companies, sens_alerts, uploaded_documents, ingested_sources,
                   messages, analyst_ticker_filter, cortex_model, env, request,
                   settingsVars, chunkVars, promptVars, runtimeVars>>

\* render_watchlist, lines 249-263: add the selected ticker
AddToWatchlist(selected) ==
    /\ \E i \in 1..Len(companies) : companies[i].ticker = selected
    /\ ~\E i \in 1..Len(watchlist) : watchlist[i] = selected
    /\ watchlist' = Append(watchlist, selected)
    /\ UNCHANGED <<companies, sens_alerts, uploaded_documents, ingested_sources,
                   messages, analyst_ticker_filter, cortex_model, env, request,
                   settingsVars, chunkVars, promptVars, runtimeVars>>

\* lines 190-199: the record that is stored
NewAnnouncement(c, category, headline) ==
    [ticker |-> c.ticker, company |-> c.name, category |-> category,
     headline |-> Strip(headline)]

\* render_add_announcement_form, lines 186-202, for the i-th company
AddAnnouncement(i, category, headline) ==
    /\ i \in 1..Len(companies)
    /\ Len(sens_alerts) < MaxAlerts
    /\ sens_alerts' =
          IF Strip(headline) = <<>> THEN sens_alerts
          ELSE Append(sens_alerts,
                      NewAnnouncement(companies[i], category, headline))
    /\ UNCHANGED <<companies, watchlist, uploaded_documents, ingested_sources,
                   messages, analyst_ticker_filter, cortex_model, env, request,
                   settingsVars, chunkVars, promptVars, runtimeVars>>

-----------------------------------------------------------------------------
(* pages/settings.py                                                       *)

DefaultModel == "claude-3-5-sonnet"
\* 0.3, in tenths
DefaultTemperature == 3
DefaultMaxTokens == 2048

\* app.py, lines 12-32, has no default for "portfolio": only settings.py
\* lines 147 and 194 assign it
SettingsIdle ==
    /\ portfolio = Absent
    /\ tracked_tickers = <<>>
    /\ temperature = DefaultTemperature
    /\ max_tokens = DefaultMaxTokens
    /\ settings_run = "none"

\* render_data_settings, line 129: len(st.session_state.portfolio) raises
\* AttributeError while the key is unset, and the run of the page ends there
DataPanelRaises(p) == ~p.present

\* how a run of the page ends once render_model_settings has returned
RunOutcome(p) == IF DataPanelRaises(p) THEN "raised" ELSE "rendered"

\* render_model_settings, lines 21-62, with the values of the three widgets,
\* followed by the rest of the page
RenderModelSettings(new_model, new_temp, new_tokens) ==
    /\ cortex_model' = new_model
    /\ temperature' = new_temp
    /\ max_tokens' = new_tokens
    /\ settings_run' = RunOutcome(portfolio)
    /\ UNCHANGED <<companies, watchlist, sens_alerts, uploaded_documents,
                   ingested_sources, messages, analyst_ticker_filter,
                   portfolio, tracked_tickers, env, request,
                   chunkVars, promptVars, runtimeVars>>

\* render_cache_management, lines 285-302: both buttons clear caches of the
\* framework and assign no session value; "Clear Data Cache" empties the
\* store of every @st.cache_data function. The rest of the page follows
ClearCache ==
    \E button \in {"data", "resource"} :
        /\ cortex_cache' = IF button = "data" THEN {} ELSE cortex_cache
        /\ settings_run' = RunOutcome(portfolio)
        /\ UNCHANGED <<sessionVars, portfolio, tracked_tickers, temperature,
                       max_tokens, env, request, chunkVars, promptVars,
                       analysis_mode>>

\* dict.get(key, default)
Get(d, key, default) == IF key \in DOMAIN d THEN d[key] ELSE default

\* the session values the import reads or writes
ImportedValues ==
    [portfolio |-> portfolio, watchlist |-> watchlist,
     tracked_tickers |-> tracked_tickers, cortex_model |-> cortex_model,
     temperature |-> temperature, max_tokens |-> max_tokens]

\* render_data_settings, lines 193-203: Apply Configuration on the parsed
\* file config_data, from the session values s
ApplyConfiguration(s, config_data) ==
    LET in_settings == "settings" \in DOMAIN config_data
        settings == IF in_settings THEN config_data.settings ELSE <<>>
    IN  [portfolio |->
            IF "portfolio" \in DOMAIN config_data
            THEN Present(config_data.portfolio) ELSE s.portfolio,
         watchlist |->
            IF "watchlist" \in DOMAIN config_data
            THEN config_data.watchlist ELSE s.watchlist,
         tracked_tickers |->
            IF "tracked_tickers" \in DOMAIN config_data
            THEN config_data.tracked_tickers ELSE s.tracked_tickers,
         cortex_model |->
            IF in_settings THEN Get(settings, "cortex_model", DefaultModel)
            ELSE s.cortex_model,
         temperature |->
            IF in_settings THEN Get(settings, "temperature", DefaultTemperature)
            ELSE s.temperature,
         max_tokens |->
            IF in_settings THEN Get(settings, "max_tokens", DefaultMaxTokens)
            ELSE s.max_tokens]

\* the buttons of render_data_settings, lines 137-192; "open" is a run of the
\* page with no button pressed
DataPanelClicks ==
    {"open", "clear_documents", "clear_chat_history", "clear_portfolio",
     "clear_watchlist", "export", "apply"}

\* render_data_settings, lines 119-208, for the button pressed and the file in
\* the uploader; a button can be pressed only if the last run drew it
RenderDataSettings(click, config_data) ==
    /\ click \in DataPanelClicks
    /\ click = "open" \/ settings_run = "rendered"
    /\ settings_run' = RunOutcome(portfolio)
    /\ LET ran == ~DataPanelRaises(portfolio)
           imported == IF ran /\ click = "apply"
                       THEN ApplyConfiguration(ImportedValues, config_data)
                       ELSE ImportedValues
       IN  /\ uploaded_documents' =
                 IF ran /\ click = "clear_documents" THEN <<>>
                 ELSE uploaded_documents
           /\ ingested_sources' =
                 IF ran /\ click = "clear_documents" THEN <<>>
                 ELSE ingested_sources
           /\ messages' =
                 IF ran /\ click = "clear_chat_history" THEN <<>> ELSE messages
           /\ portfolio' =
                 IF ran /\ click = "clear_portfolio" THEN Present({})
                 ELSE imported.portfolio
           /\ watchlist' =
                 IF ran /\ click = "clear_watchlist" THEN <<>>
                 ELSE imported.watchlist
           /\ tracked_tickers' = imported.tracked_tickers
           /\ cortex_model' = imported.cortex_model
           /\ temperature' = imported.temperature
           /\ max_tokens' = imported.max_tokens
    /\ UNCHANGED <<companies, sens_alerts, analyst_ticker_filter, env, request,
                   chunkVars, promptVars, runtimeVars>>

\* the session state of app.py, lines 12-32, with no backend session
SessionIdle ==
    /\ SettingsIdle
    /\ RuntimeIdle
    /\ companies = <<>>
    /\ watchlist = <<>>
    /\ sens_alerts = <<>>
    /\ uploaded_documents = <<>>
    /\ ingested_sources = <<>>
    /\ messages = <<>>
    /\ analyst_ticker_filter = None
    /\ cortex_model = "claude-3-5-sonnet"
    /\ env = "no_session"
    /\ request = NoRequest

-----------------------------------------------------------------------------
(* Inputs of chunk_text: texts of 'a' with sentence terminators ". " and   *)
(* single spaces placed around the offsets the loop inspects, and the      *)
(* text "A. B. C. D. " * 200.                                              *)

MaxTextLen == 2000
MaxDots == 1
MaxSpaces == 1

TextLengths == {0, 1, 801, 900, 1000, 1001, 1100, 1801, MaxTextLen}

\* offsets of a '.' that is followed by ' '
DotOffsets == {100, 799, 800, 998, 999, 1700}

\* offsets of a ' ' on its own
SpaceOffsets == {0, 800, 999}

UpTo(S, n) == {T \in SUBSET S : Cardinality(T) <= n}

MarkedText(n, dots, spaces) ==
    <<>> \o [i \in 1..n |->
                IF (i - 1) \in dots THEN "."
                ELSE IF (i - 2) \in dots \/ (i - 1) \in spaces THEN " "
                ELSE "a"]

SentenceUnit == <<"A", ".", " ", "B", ".", " ", "C", ".", " ", "D", ".", " ">>
\* "A. B. C. D. " * 200
SentenceText ==
    <<>> \o [i \in 1..(Len(SentenceUnit) * 200) |->
                SentenceUnit[((i - 1) % Len(SentenceUnit)) + 1]]

ChunkInputs ==
    {MarkedText(n, d, s) :
        n \in TextLengths, d \in UpTo(DotOffsets, MaxDots),
        s \in UpTo(SpaceOffsets, MaxSpaces)}
    \cup {SentenceText}

ChunkInit ==
    /\ text \in ChunkInputs
    /\ chunk_size = DefaultChunkSize
    /\ overlap = DefaultOverlap
    /\ start = 0
    /\ chunks = <<>>
    /\ windows = <<>>
    /\ cpc = ChunkEnter(text)
    /\ PromptIdle
    /\ SessionIdle

ChunkNext == ChunkStep

ChunkSpec == ChunkInit /\ [][ChunkNext]_vars

-----------------------------------------------------------------------------
(* chunk_text called with a chunk_size and an overlap of the caller         *)

MaxParamLen == 12
MaxChunkSize == 10
MaxIterations == 14

\* 0 <= overlap < chunk_size
ChunkParameters ==
    {p \in [chunk_size : {1, 2, 5, MaxChunkSize}, overlap : 0..(MaxChunkSize - 1)] :
        p.overlap < p.chunk_size}

\* texts of 'a' with at most MaxDots sentence ends and MaxSpaces other blanks
ParamInputs ==
    {MarkedText(n, d, sp) :
        n \in 0..MaxParamLen, d \in UpTo(0..(MaxParamLen - 2), MaxDots),
        sp \in UpTo({0, MaxParamLen - 1}, MaxSpaces)}

ParamChunkInit ==
    /\ text \in ParamInputs
    /\ \E p \in ChunkParameters :
          /\ chunk_size = p.chunk_size
          /\ overlap = p.overlap
    /\ start = 0
    /\ chunks = <<>>
    /\ windows = <<>>
    /\ cpc = ChunkEnter(text)
    /\ PromptIdle
    /\ SessionIdle

ParamChunkNext ==
    /\ Len(chunks) < MaxIterations
    /\ ChunkStep

ParamChunkSpec == ParamChunkInit /\ [][ParamChunkNext]_vars

\* C27: with 0 <= overlap < chunk_size every iteration of the loop moves
\* start forward: the start it assigns (end - overlap) is greater than the
\* start it began with, whether or not the end was moved to a sentence end;
\* so the loop ends.
C27_EveryIterationAdvances ==
    \A k \in 1..Len(windows) :
        NextStart(windows[k].end, overlap) > windows[k].start

-----------------------------------------------------------------------------
(* Inputs of the prompt builders                                           *)

\* the five keys of system_prompts, and "risk assessment", which the
\* analysis-mode selectbox of the analyst page offers and system_prompts
\* does not know
AnalysisTypes ==
    {"general", "fundamental", "technical", "sentiment", "news", "risk assessment"}

ContextDividend ==
    <<"[", "S", "o", "u", "r", "c", "e", ":", " ", "S", "B", "K", "_", "A",
      "n", "n", "u", "a", "l", "_", "R", "e", "p", "o", "r", "t", ".", "p",
      "d", "f", "]", "\n", "D", "i", "v", "i", "d", "e", "n", "d", " ",
      "c", "o", "v", "e", "r", " ", "i", "s", " ", "2", "x", ".">>

ContextCompanies ==
    <<"[", "S", "o", "u", "r", "c", "e", ":", " ", "U", "s", "e", "r", " ",
      "C", "o", "m", "p", "a", "n", "i", "e", "s", "]", "\n", "-", " ",
      "S", "B", "K", ":", " ", "S", "t", "a", "n", "d", "a", "r", "d", " ",
      "B", "a", "n", "k", " ", "G", "r", "o", "u", "p", " ", "(", "F", "i",
      "n", "a", "n", "c", "i", "a", "l", "s", ")">>

QuestionDividend ==
    <<"W", "h", "a", "t", " ", "i", "s", " ", "t", "h", "e", " ", "d", "i",
      "v", "i", "d", "e", "n", "d", " ", "p", "o", "l", "i", "c", "y", "?">>

QuestionRisks ==
    <<"W", "h", "i", "c", "h", " ", "r", "i", "s", "k", "s", " ", "m", "a",
      "t", "t", "e", "r", "?">>

QuestionOutlook ==
    <<"S", "u", "m", "m", "a", "r", "i", "z", "e", " ", "t", "h", "e", " ",
      "o", "u", "t", "l", "o", "o", "k">>

PromptContexts == {<<>>, ContextDividend, ContextCompanies}
PromptQuestions == {QuestionDividend, QuestionRisks, QuestionOutlook}

PromptInit ==
    /\ pb_args \in [analysis_type : AnalysisTypes,
                    context : PromptContexts,
                    question : PromptQuestions]
    /\ pb_prompt = NoPrompt
    /\ text = <<>>
    /\ chunk_size = DefaultChunkSize
    /\ overlap = DefaultOverlap
    /\ start = 0
    /\ chunks = <<>>
    /\ windows = <<>>
    /\ cpc = "done"
    /\ SessionIdle

PromptNext == BuildAnalysisPrompt \/ BuildChatPrompt

PromptSpec == PromptInit /\ [][PromptNext]_vars

-----------------------------------------------------------------------------
(* The session: what the user types, selects and uploads                   *)

TickerSbk ==
    <<"s", "b", "k">>
TickerBad ==
    <<"s", "1">>
NameStandardBank ==
    <<"S", "t", "a", "n", "d", "a", "r", "d", " ", "B", "a", "n", "k", " ",
      "G", "r", "o", "u", "p">>
SectorFinancials ==
    <<"F", "i", "n", "a", "n", "c", "i", "a", "l", "s">>
CategoryDividend ==
    <<"D", "i", "v", "i", "d", "e", "n", "d", " ", "D", "e", "c", "l", "a",
      "r", "a", "t", "i", "o", "n">>
HeadlineDividend ==
    <<"F", "i", "n", "a", "l", " ", "d", "i", "v", "i", "d", "e", "n", "d",
      " ", "d", "e", "c", "l", "a", "r", "e", "d">>

NameReport ==
    <<"S", "B", "K", "_", "A", "n", "n", "u", "a", "l", "_", "R", "e", "p",
      "o", "r", "t", ".", "p", "d", "f">>
NamePrices ==
    <<"p", "r", "i", "c", "e", "s", ".", "c", "s", "v">>
NameNote ==
    <<"n", "o", "t", "e", "]", ".", "t", "x", "t">>
NameScan ==
    <<"s", "c", "a", "n", ".", "p", "d", "f">>
NameBadTxt ==
    <<"b", "a", "d", ".", "t", "x", "t">>

NameBlank ==
    <<"a", "n", "n", "u", "a", "l", ".", "t", "x", "t">>

ReportHead ==
    <<"S", "B", "K", " ", "r", "e", "s", "u", "l", "t", "s", ".", " ">>
NoteText ==
    <<"s", "e", "e", " ", "[", "S", "o", "u", "r", "c", "e", ":", " ", "x",
      "]", " ", "o", "k">>

\* a report of 813 characters: chunk_text cuts it into two chunks
ReportText == ReportHead \o [i \in 1..800 |-> "a"]

FileReport == UploadedFile(NameReport, "text", ReportText)
FilePrices == UploadedFile(NamePrices, "table", <<>>)
FileNote == UploadedFile(NameNote, "text", NoteText)
\* a PDF from which no text can be extracted, a text file that is not UTF-8
FileScan == UploadedFile(NameScan, "corrupt", <<>>)
FileBadTxt == UploadedFile(NameBadTxt, "corrupt", <<>>)

\* a text file that holds one space and nothing else
FileBlank == UploadedFile(NameBlank, "text", <<" ">>)

UploadFiles ==
    {FileReport, FilePrices, FileNote, FileScan, FileBadTxt, FileBlank}

QuestionCite ==
    <<"C", "i", "t", "e", " ", "[", "S", "o", "u", "r", "c", "e", ":", " ",
      "x", "]", " ", "a", "n", "n", "u", "a", "l", " ", "p", "r", "i", "c",
      "e", "s", " ", "n", "o", "t", "e">>
QuestionCompanies ==
    <<"n", "e", "w", "s", " ", "f", "o", "r", " ", "a", "l", "l", " ", "w",
      "a", "t", "c", "h", "l", "i", "s", "t", " ", "c", "o", "m", "p", "a",
      "n", "i", "e", "s">>

\* a question that names two documents and triggers two supplementary
\* fragments
QuestionEverything ==
    <<"a", "n", "n", "u", "a", "l", " ", "n", "o", "t", "e", " ", "f", "o",
      "r", " ", "a", "l", "l", " ", "w", "a", "t", "c", "h", "l", "i", "s",
      "t">>

ChatQuestions ==
    {QuestionDividend, QuestionCite, QuestionCompanies, QuestionEverything}

Deployments == {"no_session", "cortex", "sql"}

\* the entries of a company selectbox: no company, or a stored ticker
TickerChoices == {None} \cup {companies[i].ticker : i \in 1..Len(companies)}

BulkSelections ==
    UNION {[1..n -> UploadFiles] : n \in 1..MaxBulk}

-----------------------------------------------------------------------------
(* The dashboard, SENS and ingestion pages, from a fresh session           *)

\* the announcements added in a session that also ingests documents
IngestAlerts == 1

\* app.py, lines 12-32: the session state after start-up
IngestInit ==
    /\ companies = <<>>
    /\ watchlist = <<>>
    /\ sens_alerts = <<>>
    /\ uploaded_documents = <<>>
    /\ ingested_sources = <<>>
    /\ messages = <<>>
    /\ analyst_ticker_filter = None
    /\ cortex_model = "claude-3-5-sonnet"
    /\ SettingsIdle
    /\ RuntimeIdle
    /\ env \in Deployments
    /\ request = NoRequest
    /\ PromptIdle
    /\ text = <<>>
    /\ chunk_size = DefaultChunkSize
    /\ overlap = DefaultOverlap
    /\ start = 0
    /\ chunks = <<>>
    /\ windows = <<>>
    /\ cpc = "done"

IngestNext ==
    \/ \E t \in {TickerSbk, TickerBad} :
          AddCompany(t, NameStandardBank, SectorFinancials)
    \/ \E t \in TickerChoices : AddToWatchlist(t)
    \/ \E i \in 1..Len(companies), h \in {HeadlineDividend, <<" ">>} :
          /\ Len(sens_alerts) < IngestAlerts
          /\ AddAnnouncement(i, CategoryDividend, h)
    \/ \E f \in UploadFiles, t \in TickerChoices, r \in BackendReplies :
          ProcessFile(f, t, r)
    \/ \E fs \in BulkSelections : BulkProcess(fs)
    \/ \E i \in 1..Len(uploaded_documents) : DeleteDocument(i)
    \/ ClearAllSources

IngestSpec == IngestInit /\ [][IngestNext]_vars

-----------------------------------------------------------------------------
(* The AI Analyst page, in a session the other pages have filled           *)

\* the company the dashboard stores for the ticker typed as "sbk"
SbkCompany ==
    NewCompany(Strip(Upper(TickerSbk)), Strip(NameStandardBank), SectorFinancials)

\* what the dashboard and SENS pages have stored: nothing, or one company
\* that is on the watchlist and has one announcement
SessionDashboards ==
    {[companies |-> <<>>, watchlist |-> <<>>, sens_alerts |-> <<>>],
     [companies |-> <<SbkCompany>>,
      watchlist |-> <<SbkCompany.ticker>>,
      sens_alerts |-> <<NewAnnouncement(SbkCompany, CategoryDividend,
                                        HeadlineDividend)>>]}

\* the batches of Process All that a session has imported: each file alone,
\* two files in either order, and one file selected twice
StoredBatches ==
    {<<f>> : f \in UploadFiles}
    \cup {<<FileReport, FileNote>>, <<FileNote, FileReport>>,
          <<FileReport, FileReport>>}

\* what the ingestion page has stored: nothing, one file processed with the
\* Process button, or one bulk import
SessionStores ==
    {[docs |-> <<>>, sources |-> <<>>]}
    \cup {[docs |-> <<SingleDocData(f, t, r).doc>>, sources |-> <<SourceEntry(f)>>] :
             <<f, t, r>> \in {x \in UploadFiles \X TickerChoices \X BackendReplies :
                                 ~SingleDocData(x[1], x[2], x[3]).raised}}
    \cup {[docs |-> BulkAppended(fs), sources |-> <<>>] : fs \in StoredBatches}

\* the length of the log in a session that asks every question; the
\* questions are asked while no completion is stored
ChatMessages == 2

ChatInit ==
    /\ env \in Deployments
    /\ \E d \in SessionDashboards :
          /\ companies = d.companies
          /\ watchlist = d.watchlist
          /\ sens_alerts = d.sens_alerts
    /\ \E s \in SessionStores :
          /\ uploaded_documents = s.docs
          /\ ingested_sources = s.sources
    /\ messages = <<>>
    /\ analyst_ticker_filter = None
    /\ cortex_model = "claude-3-5-sonnet"
    /\ SettingsIdle
    /\ RuntimeIdle
    /\ request = NoRequest
    /\ PromptIdle
    /\ text = <<>>
    /\ chunk_size = DefaultChunkSize
    /\ overlap = DefaultOverlap
    /\ start = 0
    /\ chunks = <<>>
    /\ windows = <<>>
    /\ cpc = "done"

ChatNext ==
    \/ \E t \in TickerChoices : SelectTickerFilter(t)
    \/ \E q \in ChatQuestions, r \in BackendReplies :
          /\ Len(messages) + 2 <= ChatMessages
          /\ cortex_cache = {}
          /\ ChatSubmit(q, r)
    \/ ClearChat

ChatSpec == ChatInit /\ [][ChatNext]_vars

-----------------------------------------------------------------------------
(* The SENS page: announcements added one after the other                  *)

HeadlineResults ==
    <<"I", "n", "t", "e", "r", "i", "m", " ", "r", "e", "s", "u", "l", "t",
      "s">>

QuestionNews ==
    <<"l", "a", "t", "e", "s", "t", " ", "n", "e", "w", "s">>


SensHeadlines == {HeadlineDividend, HeadlineResults, <<" ">>}

\* a session in which the dashboard has stored one company
SensInit ==
    /\ env \in Deployments
    /\ companies = <<SbkCompany>>
    /\ watchlist = <<>>
    /\ sens_alerts = <<>>
    /\ uploaded_documents = <<>>
    /\ ingested_sources = <<>>
    /\ messages = <<>>
    /\ analyst_ticker_filter = None
    /\ cortex_model = DefaultModel
    /\ SettingsIdle
    /\ RuntimeIdle
    /\ request = NoRequest
    /\ PromptIdle
    /\ text = <<>>
    /\ chunk_size = DefaultChunkSize
    /\ overlap = DefaultOverlap
    /\ start = 0
    /\ chunks = <<>>
    /\ windows = <<>>
    /\ cpc = "done"

SensNext ==
    \E i \in 1..Len(companies), h \in SensHeadlines :
        AddAnnouncement(i, CategoryDividend, h)

SensSpec == SensInit /\ [][SensNext]_vars

\* C14: when the announcements fragment is emitted, each of the 5 latest
\* added announcements (all of them if there are fewer than 5) is listed in
\* it, after any sequence of additions.
C14_FragmentListsLatestFive ==
    LET got == get_relevant_context(QuestionNews, None)
        n == Len(sens_alerts)
        latest == SubSeq(sens_alerts, Max(1, n - 4), n)
    IN  \A k \in 1..Len(got.parts) :
            got.parts[k].label = LabelSens
            => \A j \in 1..Len(latest) :
                   Contains(got.parts[k].body, SensLine(latest[j]))

-----------------------------------------------------------------------------
(* The Settings page                                                       *)

\* three entries of CORTEX_MODELS, cortex_utils.py lines 12-19
ModelChoices == {"claude-3-5-sonnet", "llama3.1-70b", "mistral-large"}
\* the slider runs from 0.0 to 1.0 in steps of 0.1
TemperatureChoices == 0..10
TokenChoices == {256, 1024, 2048, 4096}

\* exported files: a full export, and files a user has cut down by hand
ConfigFull ==
    [exported_at |-> "2026-11-06",
     portfolio |-> {<<SbkCompany.ticker, 100>>},
     watchlist |-> <<SbkCompany.ticker>>,
     tracked_tickers |-> <<SbkCompany.ticker>>,
     settings |-> [cortex_model |-> "mistral-large", temperature |-> 7,
                   max_tokens |-> 1024]]
ConfigModelOnly == [settings |-> [cortex_model |-> "llama3.1-70b"]]
ConfigWatchlistOnly == [watchlist |-> <<>>]
ConfigUnrecognised == [exported_at |-> "2026-11-06"]

ConfigFiles ==
    {ConfigFull, ConfigModelOnly, ConfigWatchlistOnly, ConfigUnrecognised}

SettingsInit ==
    /\ env \in Deployments
    /\ \E d \in SessionDashboards :
          /\ companies = d.companies
          /\ watchlist = d.watchlist
          /\ sens_alerts = d.sens_alerts
    /\ uploaded_documents = <<>>
    /\ ingested_sources = <<>>
    /\ messages = <<>>
    /\ analyst_ticker_filter = None
    /\ cortex_model = DefaultModel
    /\ SettingsIdle
    /\ RuntimeIdle
    /\ request = NoRequest
    /\ PromptIdle
    /\ text = <<>>
    /\ chunk_size = DefaultChunkSize
    /\ overlap = DefaultOverlap
    /\ start = 0
    /\ chunks = <<>>
    /\ windows = <<>>
    /\ cpc = "done"

SettingsNext ==
    \/ \E m \in ModelChoices, t \in TemperatureChoices, n \in TokenChoices :
          RenderModelSettings(m, t, n)
    \/ ClearCache
    \/ \E click \in DataPanelClicks, config_data \in ConfigFiles :
          RenderDataSettings(click, config_data)

SettingsSpec == SettingsInit /\ [][SettingsNext]_vars

\* C30: no run of the Settings page ends on a session-state key that was
\* never assigned: every key the page reads has a value when it is read.
C30_NoRunFailsOnAMissingKey ==
    settings_run # "raised"

-----------------------------------------------------------------------------
(* The conversation log while the user moves between the pages             *)

\* a session with one company, one announcement and one uploaded note;
\* its questions are asked while no completion is stored
LogInit ==
    /\ env = "cortex"
    /\ companies = <<SbkCompany>>
    /\ watchlist = <<SbkCompany.ticker>>
    /\ sens_alerts = <<NewAnnouncement(SbkCompany, CategoryDividend,
                                       HeadlineDividend)>>
    /\ uploaded_documents = <<SingleDocData(FileNote, None, "text").doc>>
    /\ ingested_sources = <<SourceEntry(FileNote)>>
    /\ messages = <<>>
    /\ analyst_ticker_filter = None
    /\ cortex_model = DefaultModel
    /\ SettingsIdle
    /\ RuntimeIdle
    /\ request = NoRequest
    /\ PromptIdle
    /\ text = <<>>
    /\ chunk_size = DefaultChunkSize
    /\ overlap = DefaultOverlap
    /\ start = 0
    /\ chunks = <<>>
    /\ windows = <<>>
    /\ cpc = "done"

LogNext ==
    \/ \E q \in {QuestionDividend, QuestionEverything}, r \in BackendReplies :
          /\ cortex_cache = {}
          /\ ChatSubmit(q, r)
    \/ \E i \in {1, 4} : QuickPrompt(i)
    \/ ClearChat
    \/ \E t \in TickerChoices : SelectTickerFilter(t)
    \/ ClearCache
    \/ \E click \in DataPanelClicks, config_data \in ConfigFiles :
          RenderDataSettings(click, config_data)
    \/ \E i \in 1..Len(uploaded_documents) : DeleteDocument(i)
    \/ ClearAllSources

LogSpec == LogInit /\ [][LogNext]_vars

-----------------------------------------------------------------------------
(* Claims about the conversation log                                       *)

IsPrefix(s, t) == Len(s) <= Len(t) /\ SubSeq(t, 1, Len(s)) = s

\* the two explicit clear actions
ExplicitClear ==
    \/ ClearChat
    \/ \E config_data \in ConfigFiles :
          RenderDataSettings("clear_chat_history", config_data)

\* C17: a step that is not one of the two explicit clear actions leaves the
\* log as a prefix of the log after it, so that between clears every earlier
\* log is a prefix of every later one; a run of the settings page that
\* imports a configuration, clears the documents or clears a cache, and a
\* deletion of documents on the ingestion page, leave the log unchanged.
C17_LogAppendOnly ==
    [][/\ ExplicitClear \/ IsPrefix(messages, messages')
       /\ (\/ ClearCache
           \/ \E click \in {"apply", "clear_documents"},
                 config_data \in ConfigFiles :
                 RenderDataSettings(click, config_data)
           \/ ClearAllSources
           \/ \E i \in 1..Len(uploaded_documents) : DeleteDocument(i))
          => messages' = messages
      ]_vars

\* an answered question stands on a log that already held a message, and the
\* settings page and the ingestion page have been used since the session began
C17_Witness ==
    /\ Len(messages) >= 3
    /\ messages[Len(messages)].role = "assistant"
    /\ settings_run # "none"
    /\ uploaded_documents = <<>>

-----------------------------------------------------------------------------
(* The dashboard: companies added, removed and watched                     *)

TickerSbkSpaced ==
    <<" ", "S", "B", "K">>
TickerNpn ==
    <<"n", "p", "n">>
TickerAgl ==
    <<"A", "g", "l">>
NameNaspers ==
    <<"N", "a", "s", "p", "e", "r", "s", " ", "L", "i", "m", "i", "t", "e",
      "d">>

\* what is typed into the ticker field (at most 5 characters) and the name
\* field of the form
TypedTickers == {TickerSbk, TickerSbkSpaced, TickerNpn, TickerAgl, TickerBad}
TypedNames == {NameStandardBank, NameNaspers, <<" ">>}

\* the tickers the form can store
StoredTickers == {Strip(Upper(t)) : t \in TypedTickers}

DashboardInit ==
    /\ env = "no_session"
    /\ companies = <<>>
    /\ watchlist = <<>>
    /\ sens_alerts = <<>>
    /\ uploaded_documents = <<>>
    /\ ingested_sources = <<>>
    /\ messages = <<>>
    /\ analyst_ticker_filter = None
    /\ cortex_model = DefaultModel
    /\ SettingsIdle
    /\ RuntimeIdle
    /\ request = NoRequest
    /\ PromptIdle
    /\ text = <<>>
    /\ chunk_size = DefaultChunkSize
    /\ overlap = DefaultOverlap
    /\ start = 0
    /\ chunks = <<>>
    /\ windows = <<>>
    /\ cpc = "done"

DashboardNext ==
    \/ \E t \in TypedTickers, n \in TypedNames :
          AddCompany(t, n, SectorFinancials)
    \/ \E i \in 1..Len(companies) : DeleteCompany(i)
    \/ \E t \in StoredTickers : AddToWatchlist(t)
    \/ \E t \in StoredTickers : RemoveFromWatchlist(t)

DashboardSpec == DashboardInit /\ [][DashboardNext]_vars

-----------------------------------------------------------------------------
(* Claims about the dashboard                                              *)

\* C20: a submission of the Add Company form whose data fails validation, or
\* whose ticker is the ticker of a stored company, leaves the companies
\* unchanged; and at every time of a session of additions and removals no
\* two stored companies have the same ticker.
C20_NoDuplicateTickers ==
    /\ [](\A i, j \in 1..Len(companies) :
            i # j => companies[i].ticker # companies[j].ticker)
    /\ [][\A t \in TypedTickers, n \in TypedNames :
            LET ticker == Strip(Upper(t))
            IN  (/\ AddCompany(t, n, SectorFinancials)
                 /\ \/ ~validate_company_data(ticker, Strip(n), SectorFinancials)
                    \/ \E i \in 1..Len(companies) :
                          companies[i].ticker = ticker)
                => companies' = companies
        ]_vars

\* two companies are stored, so that submissions with their tickers are
\* duplicates, and a company that was added and watched has been removed
C20_Witness ==
    /\ Len(companies) = 2
    /\ \E k \in 1..Len(watchlist) :
          \A i \in 1..Len(companies) : companies[i].ticker # watchlist[k]

-----------------------------------------------------------------------------
(* Claims about the Settings page                                          *)

\* C13: Apply Configuration is a partial merge.  For every configuration
\* file, the import sets portfolio, watchlist, tracked_tickers and each of
\* the model settings cortex_model, temperature and max_tokens to the value
\* the file names for it, and every one of them the file does not name, a
\* setting missing from a present 'settings' object included, keeps the value
\* it had before the import.
C13_ApplyIsPartialMerge ==
    \A config_data \in ConfigFiles :
        LET before == ImportedValues
            after == ApplyConfiguration(before, config_data)
            settings == Get(config_data, "settings", <<>>)
        IN  /\ after.portfolio =
                  IF "portfolio" \in DOMAIN config_data
                  THEN Present(config_data.portfolio) ELSE before.portfolio
            /\ after.watchlist =
                  Get(config_data, "watchlist", before.watchlist)
            /\ after.tracked_tickers =
                  Get(config_data, "tracked_tickers", before.tracked_tickers)
            /\ after.cortex_model =
                  Get(settings, "cortex_model", before.cortex_model)
            /\ after.temperature =
                  Get(settings, "temperature", before.temperature)
            /\ after.max_tokens =
                  Get(settings, "max_tokens", before.max_tokens)

-----------------------------------------------------------------------------
(* Claims about the order of the fragments                                 *)

\* the place of a supplementary label in the fixed order, 0 for other labels
SupplementaryRank(label) ==
    CASE label = LabelCompanies -> 1
      [] label = LabelWatchlist -> 2
      [] label = LabelSens -> 3
      [] OTHER -> 0

\* the places <<d, c>> of the store a document fragment f can come from:
\* chunk c of document d, or (c = 0) the content or the summary of document d
Origins(f) ==
    {o \in (1..Len(uploaded_documents)) \X (0..3) :
        LET doc == uploaded_documents[o[1]]
            c == o[2]
        IN  IF "chunks" \in DOMAIN doc /\ doc.chunks # <<>>
            THEN /\ c \in 1..Len(doc.chunks)
                 /\ f = Fragment(doc.name, Slice(doc.chunks[c], 0, 800))
            ELSE /\ c = 0
                 /\ \/ /\ "content" \in DOMAIN doc
                       /\ f = Fragment(doc.name, Slice(doc.content, 0, 1500))
                    \/ /\ "summary" \in DOMAIN doc
                       /\ f = Fragment(doc.name \o SummarySuffix, doc.summary)}

\* store order, then chunk order
Before(o1, o2) == o1[1] < o2[1] \/ (o1[1] = o2[1] /\ o1[2] < o2[2])

\* C15: in every context block the document fragments come first, in the
\* order of the documents in uploaded_documents and, within a document, in
\* chunk order; the supplementary fragments follow in the order User
\* Companies, Watchlist, SENS Announcements.
C15_DocumentsThenSupplementary ==
    \A q \in ChatQuestions, t \in TickerChoices :
        LET got == get_relevant_context(q, t)
            parts == got.parts
            n == Len(parts)
        IN  ~got.raised
            => \E nd \in 0..n :
                  /\ \A k \in 1..nd : Origins(parts[k]) # {}
                  /\ \A j, k \in 1..nd :
                        j < k => \E oj \in Origins(parts[j]),
                                    ok \in Origins(parts[k]) : Before(oj, ok)
                  /\ \A k \in (nd + 1)..n :
                        SupplementaryRank(parts[k].label) > 0
                  /\ \A j, k \in (nd + 1)..n :
                        j < k => SupplementaryRank(parts[j].label)
                                 < SupplementaryRank(parts[k].label)

\* a chat request was answered from two fragments of one document, a
\* fragment of another document and two supplementary fragments
C15_Witness ==
    /\ request.status = "answered"
    /\ Len(request.labels) >= 5
    /\ \E i, j \in 1..Len(request.labels) :
          /\ request.labels[i] = NameReport
          /\ request.labels[j] = NameNote
    /\ \E i, j \in 1..Len(request.labels) :
          /\ request.labels[i] = LabelCompanies
          /\ request.labels[j] = LabelWatchlist

\* C16: for every document store reached by uploads, bulk imports and
\* deletions, every question and every entity filter, the fragments that
\* get_relevant_context returns are pairwise different.
C16_NoFragmentTwice ==
    \A q \in ChatQuestions, t \in TickerChoices :
        LET parts == get_relevant_context(q, t).parts
        IN  \A j, k \in 1..Len(parts) : j # k => parts[j] # parts[k]

\* C18: when the store holds the one document 'SBK_Annual_Report.pdf', stored
\* with its content and its chunks, the entity filter is 'SBK' and the
\* question 'What is the dividend policy?' matches nothing,
\* get_relevant_context emits exactly one fragment, and its label is
\* 'SBK_Annual_Report.pdf'.
C18_OneFragmentForTheDocument ==
    (/\ companies # <<>>
     /\ Len(uploaded_documents) = 1
     /\ uploaded_documents[1].name = NameReport
     /\ {"content", "chunks"} \subseteq DOMAIN uploaded_documents[1])
    => LET got == get_relevant_context(QuestionDividend, SbkCompany.ticker)
       IN  /\ ~got.raised
           /\ Len(got.parts) = 1
           /\ got.parts[1].label = NameReport

\* C19: get_relevant_context returns a string for every question and every
\* entity filter, whatever records the ingestion actions have stored, and no
\* chat request is aborted by an exception of it after the user message has
\* been appended to the log.
C19_ContextNeverRaises ==
    /\ \A q \in ChatQuestions, t \in TickerChoices :
          ~get_relevant_context(q, t).raised
    /\ request.status # "context_raised"

-----------------------------------------------------------------------------
(* Claims about the selection of documents and of their payload            *)

\* the four checks, on lower-cased strings; an entity filter that is None or
\* empty makes the first three false
FilterIsTicker(doc, t) ==
    Truthy(t) /\ "ticker" \in DOMAIN doc /\ doc.ticker # None
    /\ Lower(t) = Lower(doc.ticker)
FilterInName(doc, t) == Truthy(t) /\ Contains(Lower(doc.name), Lower(t))
FilterInContent(doc, t) ==
    Truthy(t) /\ "content" \in DOMAIN doc
    /\ Contains(Lower(Slice(doc.content, 0, 1000)), Lower(t))
TokenInName(doc, q) ==
    \E w \in ToSet(Split(Lower(q))) : Len(w) > 3 /\ Contains(Lower(doc.name), w)

\* the document is looked at and found relevant by get_relevant_context
TreatedAsRelevant(doc, q, t) ==
    ~get_relevant_context(q, t).raised /\ IsRelevant(doc, q, t)

\* C21: for every stored document, every question and every entity filter,
\* the document is treated as relevant if and only if the filter equals its
\* ticker, or the filter occurs in its name, or the filter occurs in the
\* first 1000 characters of its content, or a question token of more than 3
\* characters occurs in its name (all case-insensitive).
C21_RelevantIffACheckHolds ==
    \A q \in ChatQuestions, t \in TickerChoices, i \in 1..Len(uploaded_documents) :
        LET doc == uploaded_documents[i]
        IN  TreatedAsRelevant(doc, q, t)
            <=> \/ FilterIsTicker(doc, t)
                \/ FilterInName(doc, t)
                \/ FilterInContent(doc, t)
                \/ TokenInName(doc, q)

\* the first n characters of s
Truncated(s, n) == SubSeq(s, 1, Min(n, Len(s)))

\* some question and some entity filter select the document
Selectable(doc) ==
    \E q \in ChatQuestions, t \in TickerChoices : TreatedAsRelevant(doc, q, t)

\* C22: the fragments of a relevant document are, if its chunk list is not
\* empty, its first 3 chunks cut to 800 characters and nothing else;
\* otherwise, if it has content, the first 1500 characters of the content;
\* otherwise, if it has a summary, the whole summary labelled
\* '<name> - Summary'; and every fragment has non-empty text.
C22_PayloadByPriority ==
    \A i \in 1..Len(uploaded_documents) :
        LET doc == uploaded_documents[i]
            frags == DocFragments(doc)
            chunked == "chunks" \in DOMAIN doc /\ doc.chunks # <<>>
        IN  Selectable(doc)
            => /\ chunked
                  => /\ Len(frags) = Min(3, Len(doc.chunks))
                     /\ \A k \in 1..Len(frags) :
                           /\ frags[k].label = doc.name
                           /\ frags[k].body = Truncated(doc.chunks[k], 800)
               /\ (~chunked /\ "content" \in DOMAIN doc)
                  => /\ Len(frags) = 1
                     /\ frags[1].label = doc.name
                     /\ frags[1].body = Truncated(doc.content, 1500)
               /\ (~chunked /\ "content" \notin DOMAIN doc
                     /\ "summary" \in DOMAIN doc)
                  => /\ Len(frags) = 1
                     /\ frags[1].label = doc.name \o SummarySuffix
                     /\ frags[1].body = doc.summary
               /\ \A k \in 1..Len(frags) : frags[k].body # <<>>

-----------------------------------------------------------------------------
(* Claims about the supplementary fragments                                *)

QuestionSmall ==
    <<"s", "m", "a", "l", "l", " ", "c", "a", "p", "s">>

KeywordQuestions == ChatQuestions \cup {QuestionSmall}

\* the question mentions one of the keywords as a word
MentionsWord(q, keywords) == ToSet(Split(Lower(q))) \cap keywords # {}

\* the number of fragments with the label
CountLabel(parts, label) ==
    Cardinality({k \in 1..Len(parts) : parts[k].label = label})

\* no stored document carries one of the three supplementary labels
NoDocumentNamedLikeALabel ==
    \A i \in 1..Len(uploaded_documents) :
        SupplementaryRank(uploaded_documents[i].name) = 0

\* C23: whatever the documents and the entity filter, the context block holds
\* the User Companies fragment once if companies are stored and the question
\* mentions company, companies, sector or all as a word, and not at all
\* otherwise; the Watchlist fragment once if the watchlist is not empty and
\* the question mentions watchlist, and not at all otherwise; the SENS
\* Announcements fragment once if announcements exist and the question
\* mentions sens, announcement, news or update, and not at all otherwise.
C23_SupplementaryExactlyWhenTriggered ==
    NoDocumentNamedLikeALabel
    => \A q \in KeywordQuestions, t \in TickerChoices :
          LET parts == get_relevant_context(q, t).parts
              Expected(present, keywords) ==
                  IF present /\ MentionsWord(q, keywords) THEN 1 ELSE 0
          IN  /\ CountLabel(parts, LabelCompanies)
                    = Expected(companies # <<>>, CompanyKeywords)
              /\ CountLabel(parts, LabelWatchlist)
                    = Expected(watchlist # <<>>, {KwWatchlist})
              /\ CountLabel(parts, LabelSens)
                    = Expected(sens_alerts # <<>>, SensKeywords)

\* the most fragments one document contributes: doc["chunks"][:3], line 54
FragmentsPerDocument == 3

\* C24: the number of document fragments in a context block is bounded by a
\* constant that does not grow with the number of stored documents: whatever
\* the store, the question and the entity filter, it is no larger than the
\* number of fragments a single document can contribute.
C24_DocumentFragmentsBounded ==
    \A q \in ChatQuestions, t \in TickerChoices :
        Len(DocumentParts(uploaded_documents, q, t)) <= FragmentsPerDocument

-----------------------------------------------------------------------------
(* Claims about get_relevant_context over the document store               *)

\* C1: for every stored document D, every question and every entity filter
\* (none, or a stored company's ticker): if the lower-cased name of D contains
\* a token of the lower-cased question longer than 3 characters, then
\* get_relevant_context returns a context with a fragment labelled with D's
\* name.
C1_NamedDocumentAppears ==
    \A i \in 1..Len(uploaded_documents), q \in ChatQuestions, t \in TickerChoices :
        LET D == uploaded_documents[i]
            got == get_relevant_context(q, t)
        IN  (\E w \in QuestionWords(q) : Contains(Lower(D.name), w))
            => /\ ~got.raised
               /\ \E k \in 1..Len(got.parts) : got.parts[k].label = D.name

\* C3: in every context block get_relevant_context produces, for every
\* question and entity filter, no two fragments carry the same source label.
C3_LabelsUnique ==
    \A q \in ChatQuestions, t \in TickerChoices :
        LET got == get_relevant_context(q, t)
        IN  ~got.raised
            => \A j, k \in 1..Len(got.parts) :
                  j # k => got.parts[j].label # got.parts[k].label

-----------------------------------------------------------------------------
(* Claims about ingestion                                                  *)

\* extract_text_from_pdf, parse_csv_upload or parse_excel_upload returns None
\* (or no text) for the file
ParseFails(f) ==
    LET file_type == FileType(f.name)
    IN  \/ file_type = ExtPdf /\ ~Truthy(extract_text_from_pdf(f))
        \/ file_type \in {ExtCsv, ExtXlsx, ExtXls} /\ ~parse_upload_ok(f)

\* C11: when extraction or parsing of an uploaded file fails, no record for
\* it is appended: a Process step of such a file leaves uploaded_documents
\* and ingested_sources as they were, and a Process All step appends no
\* record that bears the name of such a file.
C11_FailedParseNotStored ==
    [][/\ \A f \in UploadFiles, t \in TickerChoices, r \in BackendReplies :
             (ProcessFile(f, t, r) /\ ParseFails(f))
             => UNCHANGED <<uploaded_documents, ingested_sources>>
       /\ \A fs \in BulkSelections :
             BulkProcess(fs)
             => \A i \in 1..Len(fs), k \in (Len(uploaded_documents) + 1)
                                           ..Len(uploaded_documents') :
                   ParseFails(fs[i]) => uploaded_documents'[k].name # fs[i].name
      ]_vars

\* ingestion of the file fails: a parser returns None or the read raises
IngestFails(f) == ParseFails(f) \/ BulkDocData(f).raised

\* C12: for every batch Process All can be started on, the files of the
\* batch whose ingestion does not fail are all appended to uploaded_documents,
\* in selection order, whatever happens to the other files of the batch.
C12_BulkContinuesAfterFailure ==
    \A fs \in BulkSelections :
        Len(uploaded_documents) + Len(fs) <= MaxDocs
        => LET appended == BulkAppended(fs)
               good == SelectSeq(fs, LAMBDA f : ~IngestFails(f))
               kept == SelectSeq(appended,
                          LAMBDA d : \E i \in 1..Len(good) : good[i].name = d.name)
           IN  /\ Len(kept) = Len(good)
               /\ \A i \in 1..Len(good) : kept[i] = BulkDocData(good[i]).doc

-----------------------------------------------------------------------------
(* Claims about the chat flow                                              *)

\* the last script run assembled a prompt and called the completion service
PromptSent == request.status \in {"answered", "cortex_raised"}

\* C2: the sources recorded on the assistant message the chat flow has just
\* stored are among the labels of the fragments in the context block sent
\* with that request.
C2_SourcesAreLabels ==
    request.status = "answered"
    => messages[Len(messages)].sources \subseteq ToSet(request.labels)

\* C5: call_cortex_complete never raises, whatever the deployment and
\* whatever the backend does: the chat flow always gets a string back.
C5_NeverRaises == request.status # "cortex_raised"

SourceTag ==
    <<"[", "S", "o", "u", "r", "c", "e", ":">>

\* the offsets at which sub occurs in s
Occurrences(s, sub) == {i \in 0..(Len(s) - Len(sub)) : OccursAt(s, sub, i)}

\* C6 as stated: the with-context template is used exactly when
\* get_relevant_context emitted a fragment, and a prompt assembled without
\* fragments contains no "[Source:".
C6_AsStated ==
    PromptSent
    => /\ request.template = "rag" <=> request.labels # <<>>
       /\ request.labels = <<>>
          => /\ request.template = "general"
             /\ ~Contains(request.full_prompt, SourceTag)

\* C6: the with-context template is used exactly when get_relevant_context
\* emitted a fragment; a prompt assembled without fragments uses the
\* no-context template and contains "[Source:" only where the question as
\* typed contains it (as many times as the question does).
C6_TemplateChoice ==
    PromptSent
    => /\ request.template = "rag" <=> request.labels # <<>>
       /\ request.labels = <<>>
          => /\ request.template = "general"
             /\ Cardinality(Occurrences(request.full_prompt, SourceTag))
                   = Cardinality(Occurrences(request.question, SourceTag))

\* a question that matches a stored document which yields no fragment was
\* answered from the no-context template
C6_Witness ==
    /\ request.status = "answered"
    /\ uploaded_documents # <<>>
    /\ request.labels = <<>>
    /\ request.template = "general"
    /\ Contains(request.question, SourceTag)

-----------------------------------------------------------------------------
(* Claims about chunk_text                                                 *)

\* C7: with the default parameters every loop iteration (snapped to a
\* sentence end or not) strictly increases the start offset, and the loop
\* ends exactly when start reaches or exceeds the text length; start being
\* an integer bounded by the text length, the loop terminates.
C7_Terminates ==
    [][cpc = "loop" =>
        /\ start' > start
        /\ (cpc' = "done") <=> (start' >= Len(text))]_vars

\* C7 witness: a finished run with one iteration that snapped to a sentence
\* end and one that did not.
C7_Witness ==
    /\ cpc = "done"
    /\ \E i \in 1..Len(windows) : windows[i].found
    /\ \E i \in 1..Len(windows) : windows[i].searched /\ ~windows[i].found

\* The characters of the window [w.start, w.end) before trimming
RawWindow(w) == Slice(text, w.start, w.end)

RemoveWs(s) == SelectSeq(s, LAMBDA c : c \notin Whitespace)

\* The part of chunk i that lies inside the previous window: window i starts
\* `overlap` characters before the end of window i-1, and strip() has already
\* removed windows[i].lead of them.
OverlapPrefixLen(i) ==
    Min(Len(chunks[i]),
        Max(0, Min(windows[i - 1].end, Len(text))
               - (windows[i].start + windows[i].lead)))

RECURSIVE Reconstruct(_)
\* chunks[1..n] concatenated, each later chunk without its overlapping prefix
Reconstruct(n) ==
    IF n = 0 THEN <<>>
    ELSE IF n = 1 THEN chunks[1]
    ELSE Reconstruct(n - 1)
         \o SubSeq(chunks[n], OverlapPrefixLen(n) + 1, Len(chunks[n]))

\* C9: (default parameters) consecutive windows overlap by exactly `overlap`
\* characters; once the loop has ended every character offset of the text
\* lies in the [start, end) window of some chunk, and the chunks joined
\* without the overlapping prefix of each later chunk give back the text up
\* to the whitespace trimmed at chunk boundaries.
C9_Lossless ==
    /\ \A i \in 1..(Len(windows) - 1) :
          windows[i].end - windows[i + 1].start = DefaultOverlap
    /\ cpc = "done" =>
          /\ \A p \in 0..(Len(text) - 1) :
                \E i \in 1..Len(windows) :
                    windows[i].start <= p /\ p < windows[i].end
          /\ RemoveWs(Reconstruct(Len(chunks))) = RemoveWs(text)

\* C9 witness: a finished run of three or more chunks in which a later
\* window began with whitespace that strip() removed.
C9_Witness ==
    /\ cpc = "done"
    /\ Len(chunks) >= 3
    /\ \E i \in 2..Len(windows) : windows[i].lead > 0

-----------------------------------------------------------------------------
(* Claims about the prompt texts                                           *)

PhrasePricePredictions ==
    <<"p", "r", "i", "c", "e", " ", "p", "r", "e", "d", "i", "c", "t", "i",
      "o", "n", "s">>

PhrasePredictPrices ==
    <<"p", "r", "e", "d", "i", "c", "t", " ", "p", "r", "i", "c", "e", "s">>

\* The preamble of a prompt: everything before its first blank line
Preamble(prompt) ==
    LET blank == {i \in 0..(Len(prompt) - 2) : OccursAt(prompt, <<"\n", "\n">>, i)}
    IN  IF blank = {} THEN prompt
        ELSE SubSeq(prompt, 1, CHOOSE i \in blank : \A j \in blank : i <= j)

\* The text tells the model not to predict prices
NoPricePrediction(s) ==
    \/ Contains(Lower(s), PhrasePricePredictions)
    \/ Contains(Lower(s), PhrasePredictPrices)

\* C4: every preamble sent to the completion service (the five of
\* build_analysis_prompt, the two chat templates) carries the instruction
\* not to predict prices.
C4_EveryPreambleForbidsPrediction ==
    pb_prompt # NoPrompt => NoPricePrediction(Preamble(pb_prompt.text))

\* C28: when chunk_text has returned, an empty text has given no chunk; a
\* non-empty text has given chunks that are all non-empty, exactly one of
\* them when the text is no longer than chunk_size, and the last window ends
\* beyond every earlier one, so the last chunk takes characters no earlier
\* chunk holds.
C28_ChunksAreNonEmpty ==
    cpc = "done"
    => IF text = <<>> THEN chunks = <<>>
       ELSE /\ \A k \in 1..Len(chunks) : chunks[k] # <<>>
            /\ Len(text) <= chunk_size => Len(chunks) = 1
            /\ \A k \in 1..(Len(windows) - 1) :
                   windows[k].end < windows[Len(windows)].end

-----------------------------------------------------------------------------
(* The AI Analyst page with its context panel and the completion cache     *)

AnalystQuestions == {QuestionDividend, QuestionEverything}

\* the length of the log in a session that repeats its questions
AnalystMessages == 3

\* a session with one company, one announcement and one uploaded note, in
\* any deployment
AnalystInit ==
    /\ env \in Deployments
    /\ companies = <<SbkCompany>>
    /\ watchlist = <<SbkCompany.ticker>>
    /\ sens_alerts = <<NewAnnouncement(SbkCompany, CategoryDividend,
                                       HeadlineDividend)>>
    /\ uploaded_documents = <<SingleDocData(FileNote, None, "text").doc>>
    /\ ingested_sources = <<SourceEntry(FileNote)>>
    /\ messages = <<>>
    /\ analyst_ticker_filter = None
    /\ cortex_model = DefaultModel
    /\ SettingsIdle
    /\ RuntimeIdle
    /\ request = NoRequest
    /\ PromptIdle
    /\ text = <<>>
    /\ chunk_size = DefaultChunkSize
    /\ overlap = DefaultOverlap
    /\ start = 0
    /\ chunks = <<>>
    /\ windows = <<>>
    /\ cpc = "done"

AnalystNext ==
    \/ \E i \in {1, 2} : SelectAnalysisMode(i)
    \/ \E q \in AnalystQuestions, r \in BackendReplies :
          /\ Len(messages) + 2 <= AnalystMessages
          /\ ChatSubmit(q, r)
    \/ \E i \in {1, 4} : QuickPrompt(i)
    \/ ClearChat
    \/ ClearCache

AnalystSpec == AnalystInit /\ [][AnalystNext]_vars

\* The persona of a prompt: its first sentence
Persona(prompt) ==
    LET dots == {i \in 1..Len(prompt) : prompt[i] = "."}
    IN  IF dots = {} THEN prompt
        ELSE SubSeq(prompt, 1, CHOOSE i \in dots : \A j \in dots : i <= j)

\* C25: the prompt the chat flow has just sent opens with the persona of the
\* analysis mode selected in the context panel, the persona
\* build_analysis_prompt gives that mode.
C25_ModeSelectsPersona ==
    request.status = "answered"
    => Persona(request.full_prompt) = Persona(SystemPrompt(analysis_mode.value))

\* C26: the conversation log never holds two user messages in a row: each
\* user message is followed by the assistant message that answers it before
\* the next user message is appended.
C26_NoTwoUserMessagesInARow ==
    \A i \in 1..(Len(messages) - 1) :
        ~(messages[i].role = "user" /\ messages[i + 1].role = "user")

\* C29: once call_cortex_complete has returned a string for a prompt and a
\* model, a later chat request with that prompt and model is answered with
\* that string whatever the backend would do now, error strings included,
\* and stores nothing new; a stored call stays stored until a run of the
\* settings page clears the cache.
C29_RepeatedCallIsCached ==
    [][/\ \A q \in AnalystQuestions, r \in BackendReplies :
            LET got == get_relevant_context(q, analyst_ticker_filter)
                hits == CacheHits(cortex_cache,
                                  ChatPrompt(got.context, q), cortex_model)
            IN  ChatSubmit(q, r) /\ ~got.raised /\ hits # {}
                => /\ \A c \in hits :
                         /\ messages'[Len(messages')].role = "assistant"
                         /\ messages'[Len(messages')].content
                               = StreamedResponse(c.value)
                   /\ cortex_cache' = cortex_cache
                   /\ \A other \in BackendReplies : ChatSubmit(q, other)
       /\ cortex_cache \subseteq cortex_cache' \/ ClearCache
      ]_vars

\* the same question was asked again after the SQL fallback had failed, and
\* the stored error string was returned without a new call
C29_Witness ==
    /\ request.status = "answered"
    /\ request.backend = "skipped"
    /\ \E c \in cortex_cache :
          /\ c.prompt = request.full_prompt
          /\ IsPrefix(ErrCallingCortex, c.value)

=============================================================================
